---- MODULE Spec2Model ----
(***************************************************************************)
(* Model of rdagent/components/coder/factor_coder/CoSTEER/evaluators.py:   *)
(* the atomic checks over two tables, FactorOutputFormatEvaluator,         *)
(* FactorValueEvaluator, FactorCodeEvaluator, FactorFinalDecisionEvaluator,*)
(* FactorEvaluatorForCoder.evaluate and FactorMultiEvaluator.evaluate.     *)
(*                                                                         *)
(* Spec runs one call of FactorValueEvaluator or FactorEvaluatorForCoder,  *)
(* FairSpec one call of FactorEvaluatorForCoder that is never left         *)
(* unfinished, CheckSpec one call of a single evaluator, BatchSpec one     *)
(* call of FactorMultiEvaluator over a pool of workers.                    *)
(*                                                                         *)
(* A table is described by a small record; its index and its cells are     *)
(* computed from the record by Index and Cell.  A row is the pair          *)
(* <<clock, i>>: i is the ordinal of the (datetime, instrument) pair, two  *)
(* instruments per datetime, and clock tells whether consecutive datetimes *)
(* are one minute or one day apart (rows on different clocks are different *)
(* index values).  Cell values are integers in units of 1e-7, or inf, or   *)
(* NaN.  Ratios are kept exact as numerator/denominator.                   *)
(***************************************************************************)
EXTENDS Integers, Sequences, FiniteSets, TLC

\* ------------------------------------------------------------------ bounds
\* largest number of rows of a table
MaxRows == 101
\* chat_token_limit of the completion service, in tokens (one per character)
TokenLimit == 4
\* longest execution feedback, in characters
MaxFeedback == 4000
\* largest number of sub tasks of an evolving item
MaxCandidates == 2

\* --------------------------------------------------------- program constants
\* FactorOutputFormatEvaluator.evaluate: max_attempts (preceded by the
\* off-by-one variant)
fmt_max_attempts_off == 3 + 1
fmt_max_attempts == 3
\* FactorFinalDecisionEvaluator.evaluate: max_attempts
final_max_attempts_off == 3 + 1
final_max_attempts == 3
\* "for _ in range(10)": the number of token checks of a halving loop
\* (preceded by the off-by-one variant)
max_trail_off == 10 + 1
max_trail == 10

\* ------------------------------------------------------------------ metrics
\* The second component of a check's result: a Python number (kept as n/d),
\* a bool, NaN or None.
Num(n, d) == [t |-> "num", n |-> n, d |-> d]
MBool(b) == [t |-> "bool", n |-> IF b THEN 1 ELSE 0, d |-> 1]
MNaN == [t |-> "nan", n |-> 0, d |-> 1]
MNone == [t |-> "none", n |-> 0, d |-> 1]

\* Python "m > 0.99": a bool compares as 0 or 1, NaN compares false
Gt99(m) == m.t \in {"num", "bool"} /\ 100 * m.n > 99 * m.d
\* Python "m <= 0.99"
Le99(m) == m.t \in {"num", "bool"} /\ 100 * m.n <= 99 * m.d
\* Python "m is False"
IsFalse(m) == m.t = "bool" /\ m.n = 0
\* Python truth value of m
Truthy(m) == (m.t \in {"num", "bool"} /\ m.n # 0) \/ m.t = "nan"

\* A check's outcome: it returned (msg, metric) or it raised err.
Ret(msg, metric) == [raised |-> FALSE, err |-> "", msg |-> msg, metric |-> metric]
Raise(err) == [raised |-> TRUE, err |-> err, msg |-> "", metric |-> MNone]

\* ------------------------------------------------------------------- tables
NoTable == [present |-> FALSE, rows |-> 0, cols |-> 0, lo |-> 1,
            dt |-> "none", pat |-> "id", tail |-> "none"]

Tbl(rows, cols, lo, dt, pat, tail) ==
    [present |-> TRUE, rows |-> rows, cols |-> cols, lo |-> lo,
     dt |-> dt, pat |-> pat, tail |-> tail]

Min(a, b) == IF a <= b THEN a ELSE b
Max(a, b) == IF a >= b THEN a ELSE b
Abs(a) == IF a >= 0 THEN a ELSE -a

\* dt tells how the datetimes are spaced and how the rows are stored: "day"
\* and "minute" in ascending order, "minute_desc" one minute apart with the
\* latest row first, "none" when the index has no level named datetime
Clock(p) == IF p.dt \in {"minute", "minute_desc"} THEN "minute" ELSE "day"
Ords(p) == p.lo .. (p.lo + p.rows - 1)
\* set(df.index)
Index(p) == {<<Clock(p), i>> : i \in Ords(p)}
\* the datetime level of a row: two instruments per datetime
Date(r) == <<r[1], (r[2] + 1) \div 2>>
\* the timestamp of a datetime, in minutes
Stamp(dte) == IF dte[1] = "minute" THEN dte[2] ELSE dte[2] * (24 * 60)

NaNCell == [t |-> "nan", v |-> 0]
InfCell == [t |-> "inf", v |-> 0]
\* cell values are multiples of 1e-4, held in units of 1e-7
Unit == 10 * 100

\* df.loc[r].iloc[c-1] for r in the index: every column carries the pattern,
\* the tail cell (last row, first column) may be inf or NaN
Cell(p, r, c) ==
    IF p.tail # "none" /\ r[2] = p.lo + p.rows - 1 /\ c = 1
    THEN (IF p.tail = "inf" THEN InfCell ELSE NaNCell)
    ELSE [t |-> "num",
          v |-> CASE p.pat = "id" -> r[2] * Unit
                  [] p.pat = "neg" -> (0 - r[2]) * Unit
                  [] p.pat = "shift" -> (r[2] + 1) * Unit
                  [] p.pat = "near" -> r[2] * Unit + 5
                  [] OTHER -> 7 * Unit]

\* the cell after reindexing to a wider index or column set: NaN where absent
InIndex(p, r) == r[1] = Clock(p) /\ r[2] \in Ords(p)
At(p, r, c) == IF InIndex(p, r) /\ c <= p.cols THEN Cell(p, r, c) ELSE NaNCell

\* ------------------------------------------------------------ atomic checks
\* FactorInfEvaluator.evaluate
FactorInfEvaluator(gen) ==
    IF ~gen.present THEN Ret("The source dataframe is None. Please check the implementation.", MBool(FALSE))
    ELSE LET INF_count == Cardinality({rc \in Index(gen) \X (1 .. gen.cols) :
                                          Cell(gen, rc[1], rc[2]).t = "inf"})
         IN IF INF_count = 0
            THEN Ret("The source dataframe does not have any infinite values.", MBool(TRUE))
            ELSE Ret("The source dataframe has infinite values. Please check the implementation.", MBool(FALSE))

\* FactorSingleColumnEvaluator.evaluate
FactorSingleColumnEvaluator(gen) ==
    IF ~gen.present THEN Ret("The source dataframe is None. Please check the implementation.", MBool(FALSE))
    ELSE IF gen.cols = 1
         THEN Ret("The source dataframe has only one column which is correct.", MBool(TRUE))
         ELSE Ret("The source dataframe has more than one column.", MBool(FALSE))

\* the index value of the k-th row as the table stores it
RowAt(p, k) ==
    <<Clock(p), IF p.dt = "minute_desc" THEN p.lo + p.rows - k ELSE p.lo + k - 1>>

\* FactorDatetimeDailyEvaluator.evaluate: to_series().diff() subtracts from
\* the datetime of each row that of the row stored before it
FactorDatetimeDailyEvaluator(gen) ==
    IF ~gen.present THEN Ret("The source dataframe is None. Skip the evaluation of the datetime format.", MBool(FALSE))
    ELSE IF gen.dt = "none"
    THEN Ret("The source dataframe does not have a datetime index. Please check the implementation.", MBool(FALSE))
    ELSE LET time_diff == {Stamp(Date(RowAt(gen, k + 1))) - Stamp(Date(RowAt(gen, k))) :
                              k \in 1 .. (gen.rows - 1)}
         IN IF 1 \in time_diff
            THEN Ret("The generated dataframe is not daily. The implementation is definitely wrong. Please check the implementation.", MBool(FALSE))
            ELSE Ret("The generated dataframe is daily.", MBool(TRUE))

\* FactorRowCountEvaluator.evaluate: len(None) raises TypeError and a ratio
\* of two empty tables divides by zero; the explanation is empty above 0.99
\* (preceded by the variant without the test "gen_df is None")
FactorRowCountEvaluator_unguarded(gen, gt) ==
    IF ~gen.present \/ ~gt.present THEN Raise("TypeError")
    ELSE IF Max(gen.rows, gt.rows) = 0 THEN Raise("ZeroDivisionError")
    ELSE LET ratio == Num(Min(gen.rows, gt.rows), Max(gen.rows, gt.rows))
         IN Ret(IF Le99(ratio) THEN "The ratio of rows count in the source dataframe to the ground truth dataframe is low. Please verify the implementation. " ELSE "",
                ratio)

FactorRowCountEvaluator(gen, gt) ==
    IF ~gen.present THEN Ret("The source dataframe is None. Please check the implementation.", MBool(FALSE))
    ELSE IF ~gt.present THEN Raise("TypeError")
    ELSE IF Max(gen.rows, gt.rows) = 0 THEN Raise("ZeroDivisionError")
    ELSE LET ratio == Num(Min(gen.rows, gt.rows), Max(gen.rows, gt.rows))
         IN Ret(IF Le99(ratio) THEN "The ratio of rows count in the source dataframe to the ground truth dataframe is low. Please verify the implementation. " ELSE "",
                ratio)

\* FactorIndexEvaluator.evaluate
FactorIndexEvaluator(gen, gt) ==
    IF ~gen.present THEN Ret("The source dataframe is None. Please check the implementation.", MBool(FALSE))
    ELSE IF ~gt.present THEN Raise("AttributeError")
    ELSE LET gen_index_set == Index(gen)
             gt_index_set == Index(gt)
             un == Cardinality(gen_index_set \cup gt_index_set)
         IN IF un = 0 THEN Raise("ZeroDivisionError")
            ELSE LET similarity == Num(Cardinality(gen_index_set \cap gt_index_set), un)
                 IN Ret(IF Le99(similarity) THEN "The source dataframe and the ground truth dataframe have different index. Please check the implementation." ELSE "",
                        similarity)

\* df.isna().sum().sum()
NaCount(p) == Cardinality({rc \in Index(p) \X (1 .. p.cols) : Cell(p, rc[1], rc[2]).t = "nan"})

\* FactorMissingValuesEvaluator.evaluate
FactorMissingValuesEvaluator(gen, gt) ==
    IF ~gen.present THEN Ret("The source dataframe is None. Please check the implementation.", MBool(FALSE))
    ELSE IF ~gt.present THEN Raise("AttributeError")
    ELSE IF NaCount(gen) = NaCount(gt)
         THEN Ret("Both dataframes have the same missing values.", MBool(TRUE))
         ELSE Ret("The dataframes do not have the same missing values. Please check the implementation.", MBool(FALSE))

\* one cell of gen_df.sub(gt_df).abs().lt(1e-6): inf - x is inf or NaN and
\* NaN compares false
CloseAt(gen, gt, r, c) ==
    LET a == At(gen, r, c)
        b == At(gt, r, c)
    IN a.t = "num" /\ b.t = "num" /\ Abs(a.v - b.v) < 10

\* FactorEqualValueRatioEvaluator.evaluate: sub aligns both tables on the
\* union of the indices and of the columns.  With gt_df None the subtraction
\* raises, the bare except binds close_values only, and returning acc_rate
\* raises UnboundLocalError.
FactorEqualValueRatioEvaluator(gen, gt) ==
    IF ~gen.present THEN Ret("The source dataframe is None. Please check the implementation.", Num(-1, 1))
    ELSE IF ~gt.present THEN Raise("UnboundLocalError")
    ELSE LET rws == Index(gen) \cup Index(gt)
             ncol == Max(gen.cols, gt.cols)
             size == Cardinality(rws) * ncol
             pos_num == Cardinality({rc \in rws \X (1 .. ncol) : CloseAt(gen, gt, rc[1], rc[2])})
             acc_rate == IF size = 0 THEN MNaN ELSE Num(pos_num, size)
         IN IF \A r \in rws : CloseAt(gen, gt, r, 1)
            THEN Ret("All values in the dataframes are equal within the tolerance of 1e-6.", acc_rate)
            ELSE Ret("Some values differ by more than the tolerance of 1e-6. Check for rounding errors or differences in the calculation methods.", acc_rate)

\* the columns "source" and "gt" of concat_df at row r: pd.concat drops a
\* None table, so without a ground truth table "gt" names the candidate's
\* second column
Source(gen, gt, r) == At(gen, r, 1)
Truth(gen, gt, r) == IF gt.present THEN At(gt, r, 1) ELSE At(gen, r, 2)

\* one datetime group of concat_df: the rows of that datetime where both
\* columns are present (Series.corr drops the pairs with a NaN)
GroupRows(gen, gt, dte) ==
    {r \in {<<dte[1], 2 * dte[2] - 1>>, <<dte[1], 2 * dte[2]>>} :
        Source(gen, gt, r).t # "nan" /\ Truth(gen, gt, r).t # "nan"}

Sign(x) == IF x > 0 THEN 1 ELSE IF x < 0 THEN -1 ELSE 0

\* df["source"].corr(df["gt"]) on the rows m of one group: 1 or -1, or 0 for
\* NaN.  A group has at most two rows, so the coefficient is the sign of the
\* product of the two differences, NaN with fewer than two pairs or a
\* constant column; Pearson over an infinite value is NaN.
Pearson(gen, gt, m) ==
    IF Cardinality(m) < 2 THEN 0
    ELSE LET a == CHOOSE r \in m : \A q \in m : r[2] <= q[2]
             b == CHOOSE r \in m : r # a
         IN IF \E r \in m : Source(gen, gt, r).t = "inf" \/ Truth(gen, gt, r).t = "inf" THEN 0
            ELSE Sign(Source(gen, gt, b).v - Source(gen, gt, a).v)
                 * Sign(Truth(gen, gt, b).v - Truth(gen, gt, a).v)

\* the rank of a cell among the two of its column: inf is the largest value
RankVal(c) == IF c.t = "inf" THEN (MaxRows + 10) * Unit ELSE c.v

\* df["source"].corr(df["gt"], method="spearman") on the rows m of one group
Spearman(gen, gt, m) ==
    IF Cardinality(m) < 2 THEN 0
    ELSE LET a == CHOOSE r \in m : \A q \in m : r[2] <= q[2]
             b == CHOOSE r \in m : r # a
         IN Sign(RankVal(Source(gen, gt, b)) - RankVal(Source(gen, gt, a)))
            * Sign(RankVal(Truth(gen, gt, b)) - RankVal(Truth(gen, gt, a)))

\* .dropna().mean() of the per-group coefficients: NaN when no group is left
MeanOf(coefs) ==
    LET pos == Cardinality({d \in DOMAIN coefs : coefs[d] = 1})
        neg == Cardinality({d \in DOMAIN coefs : coefs[d] = -1})
    IN IF pos + neg = 0 THEN MNaN ELSE Num(pos - neg, pos + neg)

\* FactorCorrelationEvaluator.evaluate.  pd.concat drops a None table; naming
\* the columns ["source", "gt"] raises ValueError unless there are exactly
\* two; groupby("datetime") raises KeyError when the joined index has no
\* level of that name (the names survive the join only when both agree).
\* The mean over no group at all is NaN, which fails the hard check.
FactorCorrelationEvaluator(hard_check, gen, gt) ==
    IF ~gen.present THEN Ret("The source dataframe is None. Please check the implementation.", MBool(FALSE))
    ELSE IF gen.cols + (IF gt.present THEN gt.cols ELSE 0) # 2 THEN Raise("ValueError")
    ELSE IF gen.dt = "none" \/ (gt.present /\ gt.dt = "none") THEN Raise("KeyError")
    ELSE LET dates == {Date(r) : r \in Index(gen) \cup Index(gt)}
             ic == MeanOf([d \in dates |-> Pearson(gen, gt, GroupRows(gen, gt, d))])
             ric == MeanOf([d \in dates |-> Spearman(gen, gt, GroupRows(gen, gt, d))])
         IN IF hard_check
            THEN IF Gt99(ic) /\ Gt99(ric)
                 THEN Ret("The dataframes are highly correlated.", MBool(TRUE))
                 ELSE Ret("The dataframes are not sufficiently high correlated. Investigate the factors that might be causing the discrepancies and ensure that the logic of the factor calculation is consistent.", MBool(FALSE))
            ELSE Ret("The ic and the rankic.", ic)

\* ------------------------------------------------- FactorValueEvaluator parts
\* "if index_result > 0.99": whether the correlation check is run
CorrelationGate_always(index_result) == TRUE
CorrelationGate(index_result) == Gt99(index_result)

SkipNote == "The source dataframe and the ground truth dataframe have different index. Give up comparing the values and correlation because it's useless"
ColumnNote == "Output dataframe has more columns than input feature which is not acceptable in feature processing tasks."

\* the result variables as initialised at the top of evaluate
ValueLocals ==
    [raised |-> FALSE, err |-> "", msgs |-> <<>>, execs |-> 0, corrInvoked |-> 0,
     daily_check_result |-> MNone, row_result |-> MNone, index_result |-> Num(0, 1),
     output_format_result |-> MNone, equal_value_ratio_result |-> Num(0, 1),
     high_correlation_result |-> MBool(FALSE)]

\* "if gt_implementation is not None": whether the comparisons with the
\* ground truth are run (preceded by a variant that always runs them)
RunsComparisons_always(gtGiven) == TRUE
RunsComparisons(gtGiven) == gtGiven

\* the explanations appended under "if gt_implementation is not None", in
\* the order of the conclusions.append calls (preceded by a variant that
\* appends the ratio's explanation first)
GtConclusions_ratioFirst(row, idx, mis, eqr, cor) ==
    <<eqr.msg, row.msg, idx.msg, mis.msg, cor.msg>>
GtConclusions(row, idx, mis, eqr, cor) ==
    <<row.msg, idx.msg, mis.msg, eqr.msg, cor.msg>>

\* FactorValueEvaluator.evaluate from the daily check to the correlation
\* check, given the outcome of each check: the checks run in order and the
\* first one that raises ends the evaluation.  The result of
\* FactorMissingValuesEvaluator is bound to output_format_result.  execs
\* counts the executions of the candidate, inv the correlation checks run.
ValueCombine(version, gtGiven, d, row, idx, mis, eqr, cor, inv) ==
    LET s1 == IF version = 1
              THEN [ValueLocals EXCEPT !.msgs = <<d.msg>>, !.daily_check_result = d.metric, !.execs = 1]
              ELSE ValueLocals
        Stop(k, e) == [s1 EXCEPT !.raised = TRUE, !.err = e, !.execs = @ + k]
    IN IF ~RunsComparisons(gtGiven) THEN s1
       ELSE IF row.raised THEN Stop(1, row.err)
       ELSE IF idx.raised THEN Stop(2, idx.err)
       ELSE IF mis.raised THEN Stop(3, mis.err)
       ELSE IF eqr.raised THEN Stop(4, eqr.err)
       ELSE IF cor.raised THEN [Stop(4 + inv, cor.err) EXCEPT !.corrInvoked = inv,
                                                              !.index_result = idx.metric]
       ELSE [s1 EXCEPT !.msgs = @ \o GtConclusions(row, idx, mis, eqr, cor),
                       !.execs = @ + 4 + inv,
                       !.corrInvoked = inv,
                       !.row_result = row.metric,
                       !.index_result = idx.metric,
                       !.output_format_result = mis.metric,
                       !.equal_value_ratio_result = eqr.metric,
                       !.high_correlation_result = cor.metric]

\* the correlation step: the hard check when the gate opens, else the note
CorrelationStep(gen, gt, idx) ==
    IF ~idx.raised /\ CorrelationGate(idx.metric)
    THEN [run |-> 1, res |-> FactorCorrelationEvaluator(TRUE, gen, gt)]
    ELSE [run |-> 0, res |-> Ret(SkipNote, MBool(FALSE))]

\* the checks of FactorValueEvaluator.evaluate after the format check, each
\* evaluated once (without a ground truth workspace none of the comparisons
\* is run, and ValueCombine ignores them)
ValueChecks(gen, gtGiven, gt, version) ==
    IF ~RunsComparisons(gtGiven)
    THEN ValueCombine(version, gtGiven, FactorDatetimeDailyEvaluator(gen),
                      Raise(""), Raise(""), Raise(""), Raise(""), Raise(""), 0)
    ELSE CHOOSE s \in UNION {
             {ValueCombine(version, gtGiven, d, row, idx, mis, eqr, c.res, c.run) :
                 c \in {CorrelationStep(gen, gt, idx)}} :
             d \in {FactorDatetimeDailyEvaluator(gen)},
             row \in {FactorRowCountEvaluator(gen, gt)},
             idx \in {FactorIndexEvaluator(gen, gt)},
             mis \in {FactorMissingValuesEvaluator(gen, gt)},
             eqr \in {FactorEqualValueRatioEvaluator(gen, gt)}} : TRUE

\* the tri-state decision: "Pass" is True, "Fail" is False, "Indet" is None
DecisionFromValueCheck_failFirst(gtGiven, eq, corr, row, ofr, daily, inf) ==
    IF (row.t # "none" /\ Le99(row)) \/ IsFalse(ofr) \/ IsFalse(daily) \/ IsFalse(inf)
    THEN "Fail"
    ELSE IF (gtGiven /\ Gt99(eq)) \/ Truthy(corr) THEN "Pass" ELSE "Indet"

DecisionFromValueCheck_noRatio(gtGiven, eq, corr, row, ofr, daily, inf) ==
    IF Truthy(corr)
    THEN "Pass"
    ELSE IF (row.t # "none" /\ Le99(row)) \/ IsFalse(ofr) \/ IsFalse(daily) \/ IsFalse(inf)
         THEN "Fail"
         ELSE "Indet"

DecisionFromValueCheck(gtGiven, eq, corr, row, ofr, daily, inf) ==
    IF (gtGiven /\ Gt99(eq)) \/ Truthy(corr)
    THEN "Pass"
    ELSE IF (row.t # "none" /\ Le99(row)) \/ IsFalse(ofr) \/ IsFalse(daily) \/ IsFalse(inf)
         THEN "Fail"
         ELSE "Indet"

\* ------------------------------------------------------- completion service
\* the value of a decision key in a JSON response, as str() prints it
RawDecisions == {"True", "False", "1", "yes"}
Lower(s) == CASE s = "True" -> "true" [] s = "False" -> "false" [] OTHER -> s
\* str(x).lower() in ["true", "1"]
ToBool(raw) == Lower(raw) \in {"true", "1"}

\* a response: valid JSON with both keys, valid JSON lacking a key, or no JSON
Responses ==
    {[kind |-> "ok", decision |-> r] : r \in RawDecisions}
    \cup {[kind |-> "missing", decision |-> "False"], [kind |-> "malformed", decision |-> "False"]}

\* An execution text is known by the slice of the cleaned execution feedback
\* it holds, original[lo : hi]; NoText stands for no text at all.
Text(n) == [lo |-> 0, hi |-> n]
NoText == [lo |-> -1, hi |-> -1]
Length(s) == s.hi - s.lo

\* build_messages_and_calculate_token(...) > chat_token_limit, one token per
\* character of the prompt: the fixed part and the rendered feedback
OverBudget(base, rendered) == base + Length(rendered) > TokenLimit
\* s[len(s) // 2 :] (preceded by the variant s[: len(s) // 2])
Halve_head(s) == [lo |-> s.lo, hi |-> s.lo + (Length(s) \div 2)]
Halve(s) == [lo |-> s.lo + (Length(s) \div 2), hi |-> s.hi]

\* what the try block of a retry loop does with a response: json.loads
\* raising JSONDecodeError is re-raised as ValueError, a KeyError counts an
\* attempt, otherwise the result is returned
FormatResponse(kind) ==
    CASE kind = "malformed" -> "fatal"
      [] kind = "missing" -> "retry"
      [] OTHER -> "return"

FinalResponse_retryMalformed(kind) ==
    CASE kind = "ok" -> "return"
      [] OTHER -> "retry"

FinalResponse(kind) ==
    CASE kind = "malformed" -> "fatal"
      [] kind = "missing" -> "retry"
      [] OTHER -> "return"

\* "APIBackend() if attempts == 0 else APIBackend(use_chat_cache=False)":
\* whether the call may be answered from the response cache
fmt_use_chat_cache(attempts) == attempts = 0
final_use_chat_cache(attempts) == attempts = 0
\* "seed=attempts"
final_seed_fixed(attempts) == 0
final_seed(attempts) == attempts
\* FactorOutputFormatEvaluator passes no seed
NoSeed == -1

\* one call of build_messages_and_create_chat_completion as the completion
\* service sees it: the caller, json_mode, the cache switch, the seed, the
\* execution text rendered into the prompt, the number of token counts made
\* so far, and the kind of response it gave
Call(who, json_mode, cache, seed, text, counted, resp) ==
    [who |-> who, json_mode |-> json_mode, cache |-> cache, seed |-> seed,
     text |-> text, counted |-> counted, resp |-> resp]

\* -------------------------------------------------------------------- state
VARIABLES
    inp,     \* the arguments of the call and what the collaborators hold
    pc,      \* the position of the evaluation
    val,     \* the local variables of FactorValueEvaluator.evaluate
    fb,      \* the FactorSingleFeedback being assembled
    result,  \* what FactorEvaluatorForCoder.evaluate returned
    cnt,     \* how often each collaborator and evaluator was called
    loop,    \* the locals of the halving and retry loops
    err,     \* the exception that ended the call
    calls,   \* the completion calls made so far, in order
    chk,     \* the outcome of an atomic check that was called on its own
    shared,  \* what the evaluations of a batch share: task records, knowledge
    pool,    \* the jobs handed to multiprocessing_wrapper
    multi    \* multi_implementation_feedback as FactorMultiEvaluator returns it

vars == <<inp, pc, val, fb, result, cnt, loop, err, calls, chk, shared, pool, multi>>

\* the variables of a batch, which a single evaluation leaves alone
batch == <<shared, pool, multi>>

\* ------------------------------------------------------------------- inputs
RowChoices == {0, 2, MaxRows - 2, MaxRows - 1, MaxRows}

\* candidate tables for a call of FactorValueEvaluator.evaluate
GenTables ==
    {Tbl(r, 1, 1, "day", "id", "none") : r \in RowChoices}
    \cup {Tbl(r, 1, 1, "day", "id", tl) : r \in {2, MaxRows - 1, MaxRows}, tl \in {"inf", "nan"}}
    \cup {Tbl(MaxRows, 1, 1, "day", p, "none") : p \in {"neg", "shift", "const", "near"}}
    \cup {Tbl(MaxRows, 1, 1, d, "id", "none") : d \in {"minute", "minute_desc", "none"}}
    \cup {Tbl(MaxRows, 2, 1, "day", "id", "none"),
          Tbl(MaxRows, 1, 2, "day", "id", "none"),
          Tbl(MaxRows, 1, 1, "day", "neg", "inf"),
          NoTable}

\* ground truth: no workspace, a workspace without a table, or a table
GtChoices ==
    {[given |-> FALSE, tbl |-> NoTable], [given |-> TRUE, tbl |-> NoTable]}
    \cup {[given |-> TRUE, tbl |-> Tbl(r, 1, 1, "day", "id", "none")] : r \in RowChoices}
    \cup {[given |-> TRUE, tbl |-> t] :
            t \in {Tbl(MaxRows, 1, 1, "day", "const", "none"),
                   Tbl(MaxRows, 2, 1, "day", "id", "none"),
                   Tbl(MaxRows, 1, 1, "none", "id", "none"),
                   Tbl(MaxRows, 1, 1, "day", "id", "nan")}}

\* target_task.version and scen.input_shape[-1]
Versions == {[version |-> 1, cols |-> 1], [version |-> 2, cols |-> 1], [version |-> 2, cols |-> 2]}

DirectInputs ==
    {[caller |-> "direct", impl |-> TRUE, gen |-> g, gtGiven |-> w.given, gt |-> w.tbl,
      version |-> v.version, input_cols |-> v.cols, knowledge |-> "none",
      execLen |-> 0, promptBase |-> 0] :
        g \in GenTables, w \in GtChoices, v \in Versions}

\* candidate tables for a call of FactorEvaluatorForCoder.evaluate
SingleGen ==
    {Tbl(MaxRows, 1, 1, "day", "id", "none"),
     Tbl(MaxRows, 1, 1, "day", "id", "inf"),
     Tbl(2, 1, 1, "day", "id", "inf"),
     Tbl(MaxRows, 1, 1, "day", "neg", "none"),
     Tbl(MaxRows, 1, 1, "minute", "id", "none"),
     Tbl(MaxRows, 2, 1, "day", "id", "none"),
     NoTable}

SingleGt ==
    {[given |-> FALSE, tbl |-> NoTable], [given |-> TRUE, tbl |-> NoTable],
     [given |-> TRUE, tbl |-> Tbl(MaxRows, 1, 1, "day", "id", "none")]}

\* queried_knowledge: None, or where the task information is found: in
\* success_task_to_knowledge_dict, in failed_task_info_set, or in neither
\* (the lookup answers Success, RepeatedFailure or NotFound)
Knowledge == {"none", "miss", "success", "failed"}

SingleVersions == {v \in Versions : v.cols = 1}

\* the length of the cleaned execution text and of the fixed part of a prompt
Feedbacks ==
    {[len |-> 0, base |-> 0], [len |-> 20, base |-> 0],
     [len |-> MaxFeedback \div 2, base |-> 0], [len |-> MaxFeedback, base |-> 0],
     [len |-> MaxFeedback, base |-> TokenLimit + 1]}

SingleCall(i, g, w, v, k, n, b) ==
    [caller |-> "single", impl |-> i, gen |-> g, gtGiven |-> w.given, gt |-> w.tbl,
     version |-> v.version, input_cols |-> v.cols, knowledge |-> k,
     execLen |-> n, promptBase |-> b]

\* calls without an implementation, calls answered from the knowledge, and
\* calls that evaluate
SingleInputs ==
    {SingleCall(FALSE, NoTable, w, v, k, 0, 0) : w \in SingleGt, v \in SingleVersions, k \in Knowledge}
    \cup {SingleCall(TRUE, g, w, v, k, 0, 0) :
            g \in SingleGen, w \in SingleGt, v \in SingleVersions,
            k \in {"none", "success", "failed"}}
    \cup {SingleCall(TRUE, g, w, v, "miss", f.len, f.base) :
            g \in SingleGen, w \in SingleGt, v \in SingleVersions, f \in Feedbacks}

\* FactorSingleFeedback(): every field None but value_generated_flag
EmptyFeedback ==
    [execution_feedback |-> "None", value_generated_flag |-> FALSE, code_feedback |-> "None",
     factor_value_feedback |-> <<"None">>, final_decision |-> "None", final_feedback |-> "None",
     final_decision_based_on_gt |-> "None"]

\* the feedback returned for a task marked as failed too often
FailedFeedback ==
    [execution_feedback |-> "This task has failed too many times, skip implementation.",
     value_generated_flag |-> FALSE,
     code_feedback |-> "This task has failed too many times, skip code evaluation.",
     factor_value_feedback |-> <<"This task has failed too many times, skip value evaluation.">>,
     final_decision |-> "False",
     final_feedback |-> "This task has failed too many times, skip final decision evaluation.",
     final_decision_based_on_gt |-> "False"]

\* success_task_to_knowledge_dict[target_task_information].feedback
CachedFeedback ==
    [execution_feedback |-> "<cached execution>", value_generated_flag |-> TRUE,
     code_feedback |-> "<cached code>", factor_value_feedback |-> <<"<cached value>">>,
     final_decision |-> "True", final_feedback |-> "<cached final>",
     final_decision_based_on_gt |-> "True"]

CriticTexts == {"<critique A>", "<critique B>"}

ZeroCounts ==
    [taskInfo |-> 0, lookups |-> 0, execs |-> 0, valueInv |-> 0, fmtInv |-> 0, fmtCalls |-> 0,
     corrInv |-> 0, criticInv |-> 0, criticCalls |-> 0, finalInv |-> 0, finalCalls |-> 0,
     tokenCalls |-> 0]

ValInit ==
    [conclusions |-> <<>>, inf_evaluate_res |-> MNone, format_decision |-> MNone,
     attempts |-> 0, loc |-> ValueLocals, decision |-> "unset", returned |-> FALSE]

LoopInit ==
    [iter |-> 0, to_render |-> NoText, rendered |-> NoText, attempts |-> 0, seed |-> NoSeed, cache |-> TRUE,
     codeArg |-> "None", critic |-> "None", out |-> [decision |-> "None", feedback |-> "None"]]

NoErr == [who |-> "", kind |-> ""]

\* no atomic check was called on its own; no batch is running
NoCheck == [done |-> FALSE, out |-> Ret("", MNone)]
NoShared == [tasks |-> <<>>, knowledge |-> <<>>]

Init ==
    /\ inp \in DirectInputs \cup SingleInputs
    /\ pc = IF inp.caller = "direct" THEN "v_begin" ELSE "start"
    /\ val = ValInit
    /\ fb = EmptyFeedback
    /\ result = "pending"
    /\ cnt = IF inp.caller = "direct" THEN [ZeroCounts EXCEPT !.valueInv = 1] ELSE ZeroCounts
    /\ loop = LoopInit
    /\ err = NoErr
    /\ calls = <<>>
    /\ chk = NoCheck
    /\ shared = NoShared
    /\ pool = <<>>
    /\ multi = <<>>

\* ------------------------------------------- FactorEvaluatorForCoder.evaluate
\* "implementation is None"
ImplementationMissing_never(impl) == FALSE
ImplementationMissing(impl) == ~impl

\* "if implementation is None: return None"
CheckImplementation ==
    /\ pc = "start"
    /\ IF ImplementationMissing(inp.impl)
       THEN pc' = "done" /\ result' = "null"
       ELSE pc' = "lookup" /\ result' = result
    /\ UNCHANGED <<chk, batch, inp, val, fb, cnt, loop, err, calls>>

\* the branch of the knowledge lookup
LookupOutcome_ignoreFailed(knowledge) ==
    IF knowledge = "success" THEN "success" ELSE "evaluate"

LookupOutcome(knowledge) ==
    CASE knowledge = "success" -> "success"
      [] knowledge = "failed" -> "failed"
      [] OTHER -> "evaluate"

\* reads the task information, then consults queried_knowledge when given
KnowledgeLookup ==
    /\ pc = "lookup"
    /\ cnt' = [cnt EXCEPT !.taskInfo = @ + 1,
                          !.lookups = @ + (IF inp.knowledge = "none" THEN 0 ELSE 1)]
    /\ LET o == LookupOutcome(inp.knowledge)
       IN CASE o = "success" -> fb' = CachedFeedback /\ result' = "feedback" /\ pc' = "done"
            [] o = "failed" -> fb' = FailedFeedback /\ result' = "feedback" /\ pc' = "done"
            [] OTHER -> fb' = EmptyFeedback /\ result' = result /\ pc' = "exec"
    /\ UNCHANGED <<chk, batch, inp, val, loop, err, calls>>

\* whether FactorValueEvaluator is called on the executed result
RunsValueCheck_always(gen) == TRUE
RunsValueCheck(gen) == gen.present

\* implementation.execute(), the clean-up of the execution text (execLen is
\* the length of the cleaned text), and the test "gen_df is None"
Execute ==
    /\ pc = "exec"
    /\ IF RunsValueCheck(inp.gen)
       THEN /\ fb' = [fb EXCEPT !.execution_feedback = "<output>", !.value_generated_flag = TRUE]
            /\ cnt' = [cnt EXCEPT !.execs = @ + 1, !.valueInv = @ + 1]
            /\ val' = val
            /\ pc' = "v_begin"
       ELSE /\ fb' = [fb EXCEPT !.execution_feedback = "<output>",
                                !.factor_value_feedback = <<"No factor value generated, skip value evaluation.">>,
                                !.value_generated_flag = FALSE]
            /\ cnt' = [cnt EXCEPT !.execs = @ + 1]
            /\ val' = [val EXCEPT !.decision = "Indet"]
            /\ pc' = "branch"
    /\ UNCHANGED <<chk, batch, inp, result, loop, err, calls>>

\* ------------------------------------------------ FactorValueEvaluator.evaluate
\* FactorOutputFormatEvaluator.evaluate before its retry loop: without a
\* table it returns at once
FormatWithoutTable ==
    Ret("The source dataframe is None. Skip the evaluation of the output format.", MBool(FALSE))

\* the single-column check (version 1) or the column guard (version 2), the
\* inf check, and FactorOutputFormatEvaluator up to its first completion call
ValueBegin ==
    /\ pc = "v_begin"
    /\ IF inp.version = 2 /\ ~inp.gen.present
       THEN \* gen_df.shape on None
            /\ pc' = "raised"
            /\ err' = [who |-> "value", kind |-> "AttributeError"]
            /\ cnt' = [cnt EXCEPT !.execs = @ + 1]
            /\ val' = val
       ELSE LET first == IF inp.version = 1
                         THEN <<FactorSingleColumnEvaluator(inp.gen).msg>>
                         ELSE IF inp.gen.cols > inp.input_cols THEN <<ColumnNote>> ELSE <<>>
                inf == FactorInfEvaluator(inp.gen)
            IN /\ err' = err
               /\ IF inp.gen.present
                  THEN /\ val' = [val EXCEPT !.conclusions = first \o <<inf.msg>>,
                                             !.inf_evaluate_res = inf.metric]
                       /\ cnt' = [cnt EXCEPT !.execs = @ + 3, !.fmtInv = @ + 1]
                       /\ pc' = "fmt"
                  ELSE /\ val' = [val EXCEPT
                                    !.conclusions = first \o <<inf.msg, FormatWithoutTable.msg>>,
                                    !.inf_evaluate_res = inf.metric,
                                    !.format_decision = FormatWithoutTable.metric]
                       /\ cnt' = [cnt EXCEPT !.execs = @ + 3, !.fmtInv = @ + 1]
                       /\ pc' = "v_rest"
    /\ UNCHANGED <<chk, batch, inp, fb, result, loop, calls>>

\* one pass of the retry loop of FactorOutputFormatEvaluator.evaluate: one
\* completion call in JSON mode and the handling of its response
FormatAttempt ==
    /\ pc = "fmt"
    /\ val.attempts < fmt_max_attempts
    /\ \E resp \in Responses :
        /\ cnt' = [cnt EXCEPT !.fmtCalls = @ + 1]
        /\ loop' = [loop EXCEPT !.cache = fmt_use_chat_cache(val.attempts)]
        /\ calls' = Append(calls, Call("format", TRUE, fmt_use_chat_cache(val.attempts), NoSeed,
                                       NoText, cnt.tokenCalls, resp.kind))
        /\ CASE FormatResponse(resp.kind) = "fatal" ->
                  /\ pc' = "raised"
                  /\ err' = [who |-> "format", kind |-> "ValueError"]
                  /\ val' = val
             [] FormatResponse(resp.kind) = "retry" ->
                  /\ val' = [val EXCEPT !.attempts = @ + 1]
                  /\ IF val.attempts + 1 >= fmt_max_attempts
                     THEN pc' = "raised" /\ err' = [who |-> "format", kind |-> "KeyError"]
                     ELSE pc' = "fmt" /\ err' = err
             [] OTHER ->
                  /\ val' = [val EXCEPT !.conclusions = @ \o <<"<output_format_feedback>">>,
                                        !.format_decision = MBool(ToBool(resp.decision))]
                  /\ pc' = IF inp.caller = "check" THEN "done" ELSE "v_rest"
                  /\ err' = err
    /\ UNCHANGED <<chk, batch, inp, fb, result>>

\* output_format_result as the decision rule reads it.  "feedback_str, _ ="
\* drops the decision of the format evaluator, so the variable holds what
\* was assigned to it otherwise: None, or the result of the missing values
\* check (preceded by a variant that binds the format decision to it)
OutputFormatResult_bound(format_decision, assigned) ==
    IF assigned = MNone THEN format_decision ELSE assigned
OutputFormatResult(format_decision, assigned) == assigned

\* the daily check, the comparisons with the ground truth, the conclusion and
\* the decision; the caller stores the conclusion in the feedback
ValueRest ==
    /\ pc = "v_rest"
    /\ \E r \in {ValueChecks(inp.gen, inp.gtGiven, inp.gt, inp.version)} :
          /\ cnt' = [cnt EXCEPT !.execs = @ + r.execs, !.corrInv = @ + r.corrInvoked]
          /\ IF r.raised
             THEN /\ pc' = "raised"
                  /\ err' = [who |-> "value", kind |-> r.err]
                  /\ val' = [val EXCEPT !.loc = r]
                  /\ fb' = fb
             ELSE /\ val' = [val EXCEPT
                               !.conclusions = @ \o r.msgs,
                               !.loc = r,
                               !.returned = TRUE,
                               !.decision = DecisionFromValueCheck(
                                   inp.gtGiven, r.equal_value_ratio_result, r.high_correlation_result,
                                   r.row_result,
                                   OutputFormatResult(val.format_decision, r.output_format_result),
                                   r.daily_check_result, val.inf_evaluate_res)]
                  /\ err' = err
                  /\ IF inp.caller = "single"
                     THEN /\ pc' = "branch"
                          /\ fb' = [fb EXCEPT !.factor_value_feedback = val.conclusions \o r.msgs]
                     ELSE /\ pc' = "v_done"
                          /\ fb' = fb
    /\ UNCHANGED <<chk, batch, inp, result, loop, calls>>

\* --------------------------------- FactorEvaluatorForCoder.evaluate, continued
\* whether the code evaluator runs for a decision of the value check
NeedsCodeCritic_always(decision) == TRUE
NeedsCodeCritic(decision) == decision # "Pass"

\* whether the final decision evaluator runs after the code evaluator
NeedsFinalDecision_always(decision) == TRUE
NeedsFinalDecision(decision) == decision # "Fail"

\* "factor_feedback.final_decision = decision_from_value_check" in the pass
\* branch and in the fail branch (preceded by a variant that stores true)
DecisionAsFinal_true(decision) == "True"
DecisionAsFinal(decision) == IF decision = "Pass" THEN "True" ELSE "False"

\* the evaluator that runs first when the decision is not a pass: the code
\* evaluator, at its halving loop (preceded by a variant that starts the
\* final decision evaluator at once)
CriticEntry_final == "f_loop"
CriticEntry == "c_loop"

\* final_decision_based_on_gt, then the three-way branch on the decision: a
\* pass is final at once, otherwise FactorCodeEvaluator.evaluate starts
Branch ==
    /\ pc = "branch"
    /\ IF NeedsCodeCritic(val.decision)
       THEN /\ fb' = [fb EXCEPT !.final_decision_based_on_gt = IF inp.gtGiven THEN "True" ELSE "False"]
            /\ cnt' = [cnt EXCEPT !.criticInv = @ + 1, !.taskInfo = @ + 1]
            /\ loop' = [loop EXCEPT !.iter = 0, !.to_render = Text(inp.execLen), !.rendered = NoText]
            /\ result' = result
            /\ pc' = CriticEntry
       ELSE /\ fb' = [fb EXCEPT !.final_decision_based_on_gt = IF inp.gtGiven THEN "True" ELSE "False",
                                !.code_feedback = "Final decision is True and there are no code critics.",
                                !.final_decision = DecisionAsFinal(val.decision),
                                !.final_feedback = "Value evaluation passed, skip final decision evaluation."]
            /\ cnt' = cnt
            /\ loop' = loop
            /\ result' = "feedback"
            /\ pc' = "done"
    /\ UNCHANGED <<chk, batch, inp, val, err, calls>>

\* one pass of "for _ in range(10)" in FactorCodeEvaluator.evaluate: render
\* the prompt, count its tokens, halve the feedback when over the limit
CriticTokenCheck ==
    /\ pc = "c_loop"
    /\ loop.iter < max_trail
    /\ cnt' = [cnt EXCEPT !.tokenCalls = @ + 1]
    /\ IF OverBudget(inp.promptBase, loop.to_render)
       THEN /\ loop' = [loop EXCEPT !.rendered = loop.to_render,
                                    !.to_render = Halve(loop.to_render),
                                    !.iter = @ + 1]
            /\ pc' = IF loop.iter + 1 = max_trail THEN "c_call" ELSE "c_loop"
       ELSE /\ loop' = [loop EXCEPT !.rendered = loop.to_render, !.iter = @ + 1]
            /\ pc' = "c_call"
    /\ UNCHANGED <<chk, batch, inp, val, fb, result, err, calls>>

\* the completion call of FactorCodeEvaluator.evaluate (not JSON mode) with
\* the user_prompt of the last rendering; then the caller either finishes
\* with the failing decision or starts FactorFinalDecisionEvaluator.evaluate
\* with the critique
CriticComplete ==
    /\ pc = "c_call"
    /\ calls' = Append(calls, Call("critic", FALSE, TRUE, NoSeed, loop.rendered, cnt.tokenCalls, "text"))
    /\ \E text \in CriticTexts :
        IF NeedsFinalDecision(val.decision)
        THEN /\ fb' = [fb EXCEPT !.code_feedback = text]
             /\ cnt' = [cnt EXCEPT !.criticCalls = @ + 1, !.finalInv = @ + 1]
             /\ loop' = [loop EXCEPT !.critic = text, !.codeArg = text, !.iter = 0,
                                     !.to_render = Text(inp.execLen), !.rendered = NoText,
                                     !.attempts = 0]
             /\ result' = result
             /\ pc' = "f_loop"
        ELSE /\ fb' = [fb EXCEPT !.code_feedback = text,
                                 !.final_decision = DecisionAsFinal(val.decision),
                                 !.final_feedback = "Value evaluation failed, skip final decision evaluation."]
             /\ cnt' = [cnt EXCEPT !.criticCalls = @ + 1]
             /\ loop' = [loop EXCEPT !.critic = text]
             /\ result' = "feedback"
             /\ pc' = "done"
    /\ UNCHANGED <<chk, batch, inp, val, err>>

\* one pass of "for _ in range(10)" in FactorFinalDecisionEvaluator.evaluate;
\* each rendering reads the task information
FinalTokenCheck ==
    /\ pc = "f_loop"
    /\ loop.iter < max_trail
    /\ cnt' = [cnt EXCEPT !.tokenCalls = @ + 1, !.taskInfo = @ + 1]
    /\ IF OverBudget(inp.promptBase, loop.to_render)
       THEN /\ loop' = [loop EXCEPT !.rendered = loop.to_render,
                                    !.to_render = Halve(loop.to_render),
                                    !.iter = @ + 1]
            /\ pc' = IF loop.iter + 1 = max_trail THEN "f_call" ELSE "f_loop"
       ELSE /\ loop' = [loop EXCEPT !.rendered = loop.to_render, !.iter = @ + 1]
            /\ pc' = "f_call"
    /\ UNCHANGED <<chk, batch, inp, val, fb, result, err, calls>>

\* where a retry of FactorFinalDecisionEvaluator.evaluate resumes: at the top
\* of "while attempts < max_attempts", which lies below the halving loop
FinalRetryEntry_halving == "f_loop"
FinalRetryEntry == "f_call"

\* one pass of the retry loop of FactorFinalDecisionEvaluator.evaluate: one
\* completion call in JSON mode with seed = attempts and the user_prompt of
\* the last rendering, and the handling of its response; on success the
\* caller stores the pair and returns the feedback
FinalAttempt ==
    /\ pc = "f_call"
    /\ loop.attempts < final_max_attempts
    /\ \E resp \in Responses :
        /\ cnt' = [cnt EXCEPT !.finalCalls = @ + 1]
        /\ calls' = Append(calls, Call("final", TRUE, final_use_chat_cache(loop.attempts),
                                       final_seed(loop.attempts), loop.rendered,
                                       cnt.tokenCalls, resp.kind))
        /\ CASE FinalResponse(resp.kind) = "fatal" ->
                  /\ loop' = [loop EXCEPT !.seed = final_seed(loop.attempts),
                                          !.cache = final_use_chat_cache(loop.attempts)]
                  /\ pc' = "raised"
                  /\ err' = [who |-> "final", kind |-> "ValueError"]
                  /\ fb' = fb
                  /\ result' = result
             [] FinalResponse(resp.kind) = "retry" ->
                  /\ loop' = [loop EXCEPT !.seed = final_seed(loop.attempts),
                                          !.cache = final_use_chat_cache(loop.attempts),
                                          !.attempts = @ + 1]
                  /\ IF loop.attempts + 1 >= final_max_attempts
                     THEN pc' = "raised" /\ err' = [who |-> "final", kind |-> "KeyError"]
                     ELSE pc' = FinalRetryEntry /\ err' = err
                  /\ fb' = fb
                  /\ result' = result
             [] OTHER ->
                  LET final_decision == IF ToBool(resp.decision) THEN "True" ELSE "False"
                  IN /\ loop' = [loop EXCEPT !.seed = final_seed(loop.attempts),
                                             !.cache = final_use_chat_cache(loop.attempts),
                                             !.out = [decision |-> final_decision,
                                                      feedback |-> "<final_feedback>"]]
                     /\ fb' = [fb EXCEPT !.final_decision = final_decision,
                                         !.final_feedback = "<final_feedback>"]
                     /\ result' = "feedback"
                     /\ pc' = "done"
                     /\ err' = err
    /\ UNCHANGED <<chk, batch, inp, val>>

Next ==
    \/ CheckImplementation
    \/ KnowledgeLookup
    \/ Execute
    \/ ValueBegin
    \/ FormatAttempt
    \/ ValueRest
    \/ Branch
    \/ CriticTokenCheck
    \/ CriticComplete
    \/ FinalTokenCheck
    \/ FinalAttempt

Spec == Init /\ [][Next]_vars

\* calls of FactorEvaluatorForCoder.evaluate on tables of two rows: every
\* decision of the value check occurs, and so does every stage
SmallGen ==
    {Tbl(2, 1, 1, "day", "id", "none"), Tbl(2, 1, 1, "day", "id", "inf"),
     Tbl(2, 1, 1, "minute", "id", "none"), NoTable}

SmallGt ==
    {[given |-> FALSE, tbl |-> NoTable], [given |-> TRUE, tbl |-> NoTable],
     [given |-> TRUE, tbl |-> Tbl(2, 1, 1, "day", "id", "none")]}

SmallInputs ==
    {SingleCall(FALSE, NoTable, w, v, "none", 0, 0) : w \in SmallGt, v \in SingleVersions}
    \cup {SingleCall(TRUE, g, w, v, k, 0, 0) :
            g \in SmallGen, w \in SmallGt, v \in SingleVersions,
            k \in {"none", "success", "failed"}}
    \cup {SingleCall(TRUE, g, w, v, "miss", f.len, f.base) :
            g \in SmallGen, w \in SmallGt, v \in SingleVersions, f \in Feedbacks}

FairInit ==
    /\ inp \in SmallInputs
    /\ pc = "start"
    /\ val = ValInit
    /\ fb = EmptyFeedback
    /\ result = "pending"
    /\ cnt = ZeroCounts
    /\ loop = LoopInit
    /\ err = NoErr
    /\ calls = <<>>
    /\ chk = NoCheck
    /\ shared = NoShared
    /\ pool = <<>>
    /\ multi = <<>>

\* a call that is never left unfinished: evaluate is sequential code, so as
\* long as every external call returns, the next step is taken
FairSpec == FairInit /\ [][Next]_vars /\ WF_vars(Next)

\* ---------------------------------------------- an atomic check on its own
\* the evaluators with the (implementation, gt_implementation) interface
Checks ==
    {"inf", "single_column", "daily", "row_count", "index", "missing_values",
     "equal_value_ratio", "correlation_hard", "correlation_soft", "output_format"}

\* a call of one evaluator's evaluate with a candidate that produced gen (or
\* no table) and no ground truth workspace, one without a table, or one
\* with a table
CheckInputs ==
    {[caller |-> "check", check |-> c, impl |-> TRUE, gen |-> g, gtGiven |-> w.given,
      gt |-> w.tbl, version |-> 1, input_cols |-> 1, knowledge |-> "none",
      execLen |-> 0, promptBase |-> 0] :
        c \in Checks, g \in GenTables, w \in GtChoices}

CheckInit ==
    /\ inp \in CheckInputs
    /\ pc = "check"
    /\ val = ValInit
    /\ fb = EmptyFeedback
    /\ result = "pending"
    /\ cnt = ZeroCounts
    /\ loop = LoopInit
    /\ err = NoErr
    /\ calls = <<>>
    /\ chk = NoCheck
    /\ shared = NoShared
    /\ pool = <<>>
    /\ multi = <<>>

\* evaluate of the table checks: _get_df yields None for a missing ground
\* truth workspace as for one whose execution produced no table
CheckOutcome(check, gen, gt) ==
    CASE check = "inf" -> FactorInfEvaluator(gen)
      [] check = "single_column" -> FactorSingleColumnEvaluator(gen)
      [] check = "daily" -> FactorDatetimeDailyEvaluator(gen)
      [] check = "row_count" -> FactorRowCountEvaluator(gen, gt)
      [] check = "index" -> FactorIndexEvaluator(gen, gt)
      [] check = "missing_values" -> FactorMissingValuesEvaluator(gen, gt)
      [] check = "equal_value_ratio" -> FactorEqualValueRatioEvaluator(gen, gt)
      [] check = "correlation_hard" -> FactorCorrelationEvaluator(TRUE, gen, gt)
      [] OTHER -> FactorCorrelationEvaluator(FALSE, gen, gt)

\* one evaluate call: a table check runs to its end; the format evaluator
\* returns at once without a table and else enters its retry loop
RunCheck ==
    /\ pc = "check"
    /\ IF inp.check = "output_format"
       THEN /\ cnt' = [cnt EXCEPT !.execs = @ + 1, !.fmtInv = @ + 1]
            /\ err' = err
            /\ IF inp.gen.present
               THEN chk' = chk /\ pc' = "fmt"
               ELSE chk' = [done |-> TRUE, out |-> FormatWithoutTable] /\ pc' = "done"
       ELSE \E r \in {CheckOutcome(inp.check, inp.gen, inp.gt)} :
               /\ cnt' = [cnt EXCEPT !.execs = @ + 1]
               /\ chk' = [done |-> TRUE, out |-> r]
               /\ pc' = IF r.raised THEN "raised" ELSE "done"
               /\ err' = IF r.raised THEN [who |-> inp.check, kind |-> r.err] ELSE err
    /\ UNCHANGED <<batch, inp, val, fb, result, loop, calls>>

CheckNext ==
    \/ RunCheck
    \/ FormatAttempt

CheckSpec == CheckInit /\ [][CheckNext]_vars

\* ---------------------------------------------- FactorMultiEvaluator.evaluate
\* RD_AGENT_SETTINGS.multi_proc_n, the number of worker processes: 1 unless
\* configured otherwise
PoolSizes == {1, 2}

\* A sub task with its workspace.  The task carries its factor_implementation
\* flag and where queried_knowledge holds its information; the workspace is
\* None (impl FALSE) or an implementation, of which verdict says how its
\* evaluation ends when it is carried out: with final_decision True or False,
\* or with an exception of one of the evaluators.
Candidate(k, f, i, v) ==
    [task |-> [knowledge |-> k, factor_implementation |-> f],
     ws |-> [impl |-> i, verdict |-> v]]

Candidates ==
    {Candidate("miss", FALSE, FALSE, "None"),
     Candidate("success", FALSE, FALSE, "None"),
     Candidate("success", FALSE, TRUE, "False"),
     Candidate("failed", TRUE, TRUE, "True"),
     Candidate("miss", FALSE, TRUE, "True"),
     Candidate("miss", TRUE, TRUE, "True"),
     Candidate("miss", FALSE, TRUE, "False"),
     Candidate("miss", TRUE, TRUE, "False"),
     Candidate("miss", FALSE, TRUE, "raise")}

\* evo and queried_knowledge: the sub tasks with their workspaces, whether
\* sub_gt_implementations is a list, whether queried_knowledge is given
BatchInputs ==
    {[caller |-> "batch", n |-> n, cands |-> c, gts |-> g, queried |-> q] :
        n \in PoolSizes, g \in BOOLEAN, q \in BOOLEAN,
        c \in UNION {[1 .. len -> Candidates] : len \in 0 .. MaxCandidates}}

\* the task records and the knowledge as the batch finds them
SharedOf(cands, queried) ==
    [tasks |-> [i \in DOMAIN cands |-> [factor_implementation |-> cands[i].task.factor_implementation]],
     knowledge |-> [i \in DOMAIN cands |-> IF queried THEN cands[i].task.knowledge ELSE "none"]]

BatchInit ==
    /\ inp \in BatchInputs
    /\ pc = "b_start"
    /\ val = ValInit
    /\ fb = EmptyFeedback
    /\ result = "pending"
    /\ cnt = ZeroCounts
    /\ loop = LoopInit
    /\ err = NoErr
    /\ calls = <<>>
    /\ chk = NoCheck
    /\ shared = SharedOf(inp.cands, inp.queried)
    /\ pool = <<>>
    /\ multi = <<>>

\* the argument tuple of the job for index: sub_tasks[index],
\* sub_workspace_list[index] and sub_gt_implementations[index] or None
\* (preceded by the variant that takes the first workspace for every job)
JobArgs_firstWorkspace(index, gts) ==
    [task |-> index, ws |-> 1, gt |-> IF gts THEN index ELSE 0]

JobArgs(index, gts) ==
    [task |-> index, ws |-> index, gt |-> IF gts THEN index ELSE 0]

\* a returned value: None, or a FactorSingleFeedback
NoneResult == [none |-> TRUE, feedback |-> EmptyFeedback]
Some(feedback) == [none |-> FALSE, feedback |-> feedback]

\* what FactorEvaluatorForCoder.evaluate gives for a task whose information
\* is found in the knowledge as told, a workspace and a ground truth: None,
\* the stored or the canned feedback, or the feedback of an evaluation that
\* ends as the workspace's verdict says
SingleOutcome(knowledge, ws, gtGiven) ==
    IF ImplementationMissing(ws.impl) THEN [raised |-> FALSE, value |-> NoneResult]
    ELSE CASE LookupOutcome(knowledge) = "success" -> [raised |-> FALSE, value |-> Some(CachedFeedback)]
           [] LookupOutcome(knowledge) = "failed" -> [raised |-> FALSE, value |-> Some(FailedFeedback)]
           [] OTHER ->
                IF ws.verdict = "raise" THEN [raised |-> TRUE, value |-> NoneResult]
                ELSE [raised |-> FALSE,
                      value |-> Some([EmptyFeedback EXCEPT
                                   !.execution_feedback = "<output>",
                                   !.value_generated_flag = TRUE,
                                   !.code_feedback = "<code_feedback>",
                                   !.factor_value_feedback = <<"<value_feedback>">>,
                                   !.final_decision = ws.verdict,
                                   !.final_feedback = "<final_feedback>",
                                   !.final_decision_based_on_gt = IF gtGiven THEN "True" ELSE "False"])]

\* the task records and the knowledge after the evaluation for the task at
\* index returned feedback: evaluate assigns to its own locals and to the
\* feedback it builds (preceded by the variant that sets the flag itself)
SharedAfterSingle_marks(sh, index, single_feedback) ==
    IF ~single_feedback.none /\ single_feedback.feedback.final_decision = "True"
    THEN [sh EXCEPT !.tasks[index].factor_implementation = TRUE]
    ELSE sh

SharedAfterSingle(sh, index, single_feedback) == sh

\* "if final_decision[index]: factor_implementation = True" (preceded by the
\* variant that assigns the decision)
FlagAfterMark_assign(flag, final_decision) == final_decision = "True"
FlagAfterMark(flag, final_decision) == IF final_decision = "True" THEN TRUE ELSE flag

\* "None if single_feedback is None else single_feedback.final_decision"
FinalDecisionOf(single_feedback) ==
    IF single_feedback.none THEN "None" ELSE single_feedback.feedback.final_decision

\* the list of jobs, one for each index of range(len(evo.sub_tasks)), handed
\* to multiprocessing_wrapper
FanOut ==
    /\ pc = "b_start"
    /\ pool' = [index \in DOMAIN shared.tasks |->
                 [state |-> "queued", args |-> JobArgs(index, inp.gts),
                  value |-> NoneResult, order |-> 0]]
    /\ pc' = "b_pool"
    /\ UNCHANGED <<inp, val, fb, result, cnt, loop, err, calls, chk, shared, multi>>

Running == {i \in DOMAIN pool : pool[i].state = "running"}
Finished == {i \in DOMAIN pool : pool[i].state \in {"done", "failed"}}

\* a free worker takes the next job of the queue; with one worker the jobs
\* run in the caller, which stops at the first exception
WorkerStart ==
    /\ pc = "b_pool"
    /\ Cardinality(Running) < inp.n
    /\ inp.n = 1 => \A j \in DOMAIN pool : pool[j].state # "failed"
    /\ \E i \in DOMAIN pool :
          /\ pool[i].state = "queued"
          /\ \A j \in 1 .. (i - 1) : pool[j].state # "queued"
          /\ pool' = [pool EXCEPT ![i].state = "running"]
    /\ UNCHANGED <<inp, pc, val, fb, result, cnt, loop, err, calls, chk, shared, multi>>

\* a running evaluation ends, in any order: it looks its task up in the
\* knowledge as it is now and returns its feedback or raises
WorkerFinish ==
    /\ pc = "b_pool"
    /\ \E i \in Running :
          LET a == pool[i].args
              r == SingleOutcome(shared.knowledge[a.task], inp.cands[a.ws].ws, a.gt # 0)
          IN /\ pool' = [pool EXCEPT ![i].state = IF r.raised THEN "failed" ELSE "done",
                                     ![i].value = r.value,
                                     ![i].order = Cardinality(Finished) + 1]
             /\ shared' = IF r.raised THEN shared ELSE SharedAfterSingle(shared, a.task, r.value)
    /\ UNCHANGED <<inp, pc, val, fb, result, cnt, loop, err, calls, chk, multi>>

\* the results are taken in the order of the jobs: the first job that
\* raised ends evaluate with its exception once the jobs before it are done;
\* otherwise the list of all results is multi_implementation_feedback
Collect ==
    /\ pc = "b_pool"
    /\ IF \E k \in DOMAIN pool : pool[k].state = "failed"
                                  /\ \A j \in 1 .. (k - 1) : pool[j].state = "done"
       THEN /\ pc' = "raised"
            /\ err' = [who |-> "single", kind |-> "Exception"]
            /\ multi' = multi
       ELSE /\ \A j \in DOMAIN pool : pool[j].state = "done"
            /\ pc' = "b_mark"
            /\ err' = err
            /\ multi' = [index \in DOMAIN pool |-> pool[index].value]
    /\ UNCHANGED <<inp, val, fb, result, cnt, loop, calls, chk, shared, pool>>

\* the list final_decision and the loop that marks the tasks; then
\* multi_implementation_feedback is returned
MarkImplemented ==
    /\ pc = "b_mark"
    /\ shared' = [shared EXCEPT !.tasks =
                     [index \in DOMAIN shared.tasks |->
                         [shared.tasks[index] EXCEPT !.factor_implementation =
                             FlagAfterMark(@, FinalDecisionOf(multi[index]))]]]
    /\ pc' = "b_done"
    /\ UNCHANGED <<inp, val, fb, result, cnt, loop, err, calls, chk, pool, multi>>

BatchNext ==
    \/ FanOut
    \/ WorkerStart
    \/ WorkerFinish
    \/ Collect
    \/ MarkImplemented

BatchSpec == BatchInit /\ [][BatchNext]_vars

\* =================================================================== claims
\* FactorValueEvaluator.evaluate returned a conclusion and a decision
ValueReturned == val.returned

\* the pass condition of the decision rule, on the recorded results
RatioAbove == inp.gtGiven /\ val.loc.equal_value_ratio_result.t = "num"
              /\ 100 * val.loc.equal_value_ratio_result.n > 99 * val.loc.equal_value_ratio_result.d
CorrelationPassed == val.loc.high_correlation_result = MBool(TRUE)
InfFailed == val.inf_evaluate_res = MBool(FALSE)
FormatFailed == val.format_decision = MBool(FALSE)
DailyFailed == val.loc.daily_check_result = MBool(FALSE)
RowCountLow == val.loc.row_result.t \in {"num", "bool"}
               /\ 100 * val.loc.row_result.n <= 99 * val.loc.row_result.d
IndexSimilar == val.loc.index_result.t \in {"num", "bool"}
                /\ 100 * val.loc.index_result.n > 99 * val.loc.index_result.d
HasSkipNote == \E i \in DOMAIN val.conclusions : val.conclusions[i] = SkipNote

\* C1: the value evaluator returns Pass if and only if (a ground truth
\* workspace is given and the equal-value ratio is above 0.99) or the hard
\* correlation check passed; otherwise it returns Fail or Indeterminate.
C1_PassIffRatioOrCorrelation ==
    ValueReturned =>
        /\ (val.decision = "Pass") <=> (RatioAbove \/ CorrelationPassed)
        /\ val.decision \in {"Pass", "Fail", "Indet"}

\* C1 witness: a Pass that rests on the ratio alone (the correlation failed)
C1_Witness == ValueReturned /\ val.decision = "Pass" /\ RatioAbove /\ ~CorrelationPassed

\* C2 as stated: a failed inf check or a false format decision gives Fail
\* even when the ratio is above 0.99, and without those failures a ratio
\* above 0.99 gives Pass.
C2_FailTakesPrecedence ==
    ValueReturned =>
        /\ (InfFailed \/ FormatFailed) => val.decision = "Fail"
        /\ (~InfFailed /\ ~FormatFailed /\ RatioAbove) => val.decision = "Pass"

\* C2 amended: Pass takes precedence over Fail.  With a ground truth and a
\* ratio above 0.99 the decision is Pass even if the inf check failed or the
\* format decision is false; a failed inf check gives Fail exactly when
\* neither the ratio nor the correlation passes.
C2_PassTakesPrecedence ==
    ValueReturned =>
        /\ RatioAbove => val.decision = "Pass"
        /\ (InfFailed /\ ~RatioAbove /\ ~CorrelationPassed) => val.decision = "Fail"

\* C2 witness: Pass with a failed inf check and a ratio above 0.99
C2_Witness == ValueReturned /\ InfFailed /\ RatioAbove /\ val.decision = "Pass"

\* C3 as stated: when the pass condition does not hold, the decision is Fail
\* if and only if the row-count ratio is at most 0.99, or the format check
\* returned a false decision, or (version 1) the daily check failed, or the
\* inf check failed; otherwise it is Indeterminate.
C3_FailIffListedChecks ==
    (ValueReturned /\ ~(RatioAbove \/ CorrelationPassed)) =>
        /\ (val.decision = "Fail") <=>
              (RowCountLow \/ FormatFailed \/ (inp.version = 1 /\ DailyFailed) \/ InfFailed)
        /\ val.decision \in {"Fail", "Indet"}

\* C4: with a ground truth the hard correlation check is run only when the
\* index similarity is above 0.99; at or below 0.99 it is not run, its result
\* counts as failed and the conclusion carries the give-up note.
C4_CorrelationOnlyOnSimilarIndex ==
    /\ cnt.corrInv <= 1
    /\ cnt.corrInv = 1 => (inp.gtGiven /\ IndexSimilar)
    /\ (ValueReturned /\ inp.gtGiven /\ ~IndexSimilar) =>
          (cnt.corrInv = 0 /\ ~CorrelationPassed /\ HasSkipNote)
    /\ (ValueReturned /\ inp.gtGiven /\ IndexSimilar) => (cnt.corrInv = 1 /\ ~HasSkipNote)

\* C4 witness: a returned evaluation whose index similarity is a ratio at or
\* below 0.99, with the note and without a correlation check
C4_Witness ==
    /\ ValueReturned /\ inp.gtGiven /\ val.loc.index_result.t = "num"
    /\ ~IndexSimilar /\ HasSkipNote /\ cnt.corrInv = 0

\* a call of FactorEvaluatorForCoder.evaluate that has returned a feedback
Single == inp.caller = "single"
Returned == Single /\ pc = "done" /\ result = "feedback"
CompletionCalls == cnt.fmtCalls + cnt.criticCalls + cnt.finalCalls

\* C5: when the value decision is Pass, neither the code evaluator nor the
\* final decision evaluator is called (no completion call by either), and the
\* returned feedback has final_decision true with the canned code feedback
\* and the canned final feedback.
C5_PassSkipsCriticAndFinal ==
    (Single /\ val.decision = "Pass") =>
        /\ cnt.criticInv = 0 /\ cnt.criticCalls = 0
        /\ cnt.finalInv = 0 /\ cnt.finalCalls = 0
        /\ pc \in {"branch", "done"}
        /\ pc = "done" =>
              /\ result = "feedback"
              /\ fb.final_decision = "True"
              /\ fb.code_feedback = "Final decision is True and there are no code critics."
              /\ fb.final_feedback = "Value evaluation passed, skip final decision evaluation."

\* C5 witness: a returned feedback of a passing value check
C5_Witness == Returned /\ val.decision = "Pass" /\ fb.final_decision = "True"

\* C6: when the value decision is Fail, the code evaluator is called exactly
\* once, the final decision evaluator never, and the returned feedback has
\* final_decision false with the canned final feedback.
C6_FailRunsCriticOnly ==
    (Single /\ val.decision = "Fail") =>
        /\ cnt.finalInv = 0 /\ cnt.finalCalls = 0
        /\ cnt.criticInv <= 1 /\ cnt.criticCalls <= cnt.criticInv
        /\ pc \in {"branch", "c_loop", "c_call", "done"}
        /\ pc = "done" =>
              /\ result = "feedback"
              /\ cnt.criticInv = 1 /\ cnt.criticCalls = 1
              /\ fb.code_feedback = loop.critic
              /\ fb.final_decision = "False"
              /\ fb.final_feedback = "Value evaluation failed, skip final decision evaluation."

\* C6 witness: a returned feedback of a failing value check
C6_Witness == Returned /\ val.decision = "Fail" /\ cnt.criticCalls = 1

\* C7: when the candidate produced no table the value evaluator is not
\* called, value_generated_flag is false and factor_value_feedback is the
\* skip text; then, and whenever the decision is Indeterminate, the code
\* evaluator runs first, the final decision evaluator receives its text, and
\* final_decision and final_feedback are the final decision evaluator's output.
C7_IndeterminateRunsCriticThenFinal ==
    /\ (Single /\ ~inp.gen.present) =>
          /\ cnt.valueInv = 0
          /\ pc \notin {"start", "lookup", "exec"} /\ result # "null" /\ inp.knowledge \in {"none", "miss"} =>
                /\ val.decision = "Indet"
                /\ fb.value_generated_flag = FALSE
                /\ fb.factor_value_feedback = <<"No factor value generated, skip value evaluation.">>
    /\ (Single /\ val.decision = "Indet") =>
          /\ cnt.criticInv <= 1 /\ cnt.finalInv <= 1
          /\ cnt.finalInv = 1 => (cnt.criticCalls = 1 /\ loop.codeArg = loop.critic
                                   /\ fb.code_feedback = loop.critic)
          /\ cnt.finalCalls > 0 => cnt.finalInv = 1
          /\ pc = "done" =>
                /\ result = "feedback"
                /\ cnt.criticInv = 1 /\ cnt.finalInv = 1
                /\ loop.out.decision \in {"True", "False"}
                /\ fb.final_decision = loop.out.decision
                /\ fb.final_feedback = loop.out.feedback

\* C7 witness: a feedback returned for a candidate without a table, decided
\* by the final decision evaluator
C7_Witness ==
    /\ Returned /\ ~inp.gen.present /\ val.decision = "Indet"
    /\ fb.final_decision = "True" /\ cnt.finalCalls >= 1 /\ cnt.criticCalls = 1

\* C8: when the knowledge holds a success for the task its feedback is
\* returned, and when the task is marked as failed too often the canned
\* failing feedback is returned; in both cases the candidate is never
\* executed and no completion call is made.
C8_KnowledgeHitSkipsEvaluation ==
    (Single /\ inp.impl /\ inp.knowledge \in {"success", "failed"}) =>
        /\ cnt.execs = 0 /\ CompletionCalls = 0 /\ cnt.tokenCalls = 0
        /\ pc \in {"start", "lookup", "done"}
        /\ pc = "done" =>
              /\ result = "feedback"
              /\ inp.knowledge = "success" => fb = CachedFeedback
              /\ inp.knowledge = "failed" =>
                    /\ fb = FailedFeedback
                    /\ fb.final_decision = "False" /\ fb.value_generated_flag = FALSE

\* C8 witness: the canned failing feedback was returned
C8_Witness == Returned /\ inp.knowledge = "failed" /\ fb.final_decision = "False" /\ cnt.lookups = 1

\* C9: without an implementation workspace the call returns null before any
\* other stage: no task information read, no knowledge lookup, no execution
\* and no completion call.
C9_NoImplementationReturnsNull ==
    (Single /\ ~inp.impl) =>
        /\ cnt = ZeroCounts
        /\ pc \in {"start", "done"}
        /\ pc = "done" => (result = "null" /\ fb = EmptyFeedback)

\* C9 witness: null was returned although the knowledge holds a success
C9_Witness == Single /\ ~inp.impl /\ pc = "done" /\ result = "null" /\ inp.knowledge = "success"

\* the format evaluator, resp. the final decision evaluator, returned a result
\* from a completion
FormatAnswered == inp.gen.present /\ val.format_decision.t = "bool"
FinalAnswered == loop.out.decision # "None"

\* C10: the format evaluator and the final decision evaluator each make at
\* most 3 completion calls; when every response lacks a key the error is
\* raised after exactly the 3rd call, and when attempt k returns all keys the
\* result is returned after exactly k calls (k - 1 responses lacked a key).
C10_AtMostThreeAttempts ==
    /\ cnt.fmtCalls <= 3 /\ cnt.finalCalls <= 3
    /\ cnt.fmtInv <= 1 /\ cnt.finalInv <= 1
    /\ (err.who = "format" /\ err.kind = "KeyError") => (cnt.fmtCalls = 3 /\ val.attempts = 3)
    /\ (err.who = "final" /\ err.kind = "KeyError") => (cnt.finalCalls = 3 /\ loop.attempts = 3)
    /\ (pc = "fmt" /\ val.attempts = 3) => FALSE
    /\ (pc = "f_call" /\ loop.attempts = 3) => FALSE
    /\ FormatAnswered => (cnt.fmtCalls = val.attempts + 1 /\ val.attempts <= 2)
    /\ FinalAnswered => (cnt.finalCalls = loop.attempts + 1 /\ loop.attempts <= 2)

\* C10 witness: the final decision evaluator raised after three responses
\* without the keys, the format evaluator having answered on its third call
C10_Witness ==
    /\ err = [who |-> "final", kind |-> "KeyError"] /\ cnt.finalCalls = 3
    /\ FormatAnswered /\ cnt.fmtCalls = 3

\* the completion calls of each evaluator, in order
IsFormatCall(c) == c.who = "format"
IsCriticCall(c) == c.who = "critic"
IsFinalCall(c) == c.who = "final"
FormatCalls == SelectSeq(calls, IsFormatCall)
CriticCalls == SelectSeq(calls, IsCriticCall)
FinalCalls == SelectSeq(calls, IsFinalCall)

\* C11: in the format evaluator and in the final decision evaluator a
\* response that is not JSON is fatal on whichever attempt it arrives: the
\* call that received it is the last completion call, and the evaluation has
\* ended with the ValueError of that evaluator.
C11_NonJsonIsFatal ==
    \A i \in DOMAIN calls :
        (calls[i].who \in {"format", "final"} /\ calls[i].resp = "malformed") =>
            /\ i = Len(calls)
            /\ pc = "raised"
            /\ err = [who |-> calls[i].who, kind |-> "ValueError"]

\* C11 witness: the final decision evaluator got a non-JSON response on its
\* third attempt, after two responses without the keys
C11_Witness ==
    /\ Len(FinalCalls) = 3 /\ FinalCalls[3].resp = "malformed"
    /\ FinalCalls[1].resp = "missing" /\ FinalCalls[2].resp = "missing"
    /\ err = [who |-> "final", kind |-> "ValueError"]

\* C12: in both evaluators the first attempt may use the response cache and
\* every later attempt has the cache switched off; the final decision
\* evaluator passes as seed the number of failed attempts so far (0, 1, 2),
\* so the seeds of one invocation are pairwise different.
C12_RetriesBypassCache ==
    /\ \A i \in DOMAIN FormatCalls : FormatCalls[i].cache = (i = 1)
    /\ \A i \in DOMAIN FinalCalls :
          /\ FinalCalls[i].cache = (i = 1)
          /\ FinalCalls[i].seed = i - 1
          /\ \A j \in 1 .. (i - 1) : FinalCalls[j].resp = "missing"
    /\ \A i, j \in DOMAIN FinalCalls : i # j => FinalCalls[i].seed # FinalCalls[j].seed

\* C12 witness: both evaluators retried twice; the third call of the final
\* decision evaluator had seed 2 and no cache
C12_Witness ==
    /\ Len(FormatCalls) = 3 /\ ~FormatCalls[3].cache /\ FormatCalls[1].cache
    /\ Len(FinalCalls) = 3 /\ FinalCalls[3].seed = 2 /\ ~FinalCalls[3].cache

\* the length of a text of n characters after k halvings, and the tail of
\* the execution feedback of that length
RECURSIVE KeptLength(_, _)
KeptLength(n, k) == IF k <= 0 THEN n ELSE KeptLength(n - (n \div 2), k - 1)
TailOf(n, k) == [lo |-> n - KeptLength(n, k), hi |-> n]
IsSuffix(s) == s.hi = inp.execLen /\ 0 <= s.lo /\ s.lo <= s.hi
\* the prompt with the feedback halved k times is within the token limit
Fits(k) == inp.promptBase + KeptLength(inp.execLen, k) <= TokenLimit
\* the prompt is over the limit at every one of the 10 token counts
NeverFits == \A k \in 0 .. 9 : ~Fits(k)

\* C13: the code evaluator never fails on an oversized prompt.  It counts
\* the tokens at most 10 times and halves the execution feedback only while
\* the prompt is over the limit; what it renders is always a tail of the
\* original feedback; and it makes exactly one completion call, not in JSON
\* mode, whether or not the prompt fits in the end.
C13_CriticHalvesThenCallsOnce ==
    /\ err.who # "critic"
    /\ Len(CriticCalls) <= 1
    /\ pc \in {"c_loop", "c_call"} =>
          /\ Len(CriticCalls) = 0
          /\ loop.iter <= 10
          /\ IsSuffix(loop.to_render)
          /\ loop.rendered = NoText \/ IsSuffix(loop.rendered)
          /\ \A k \in 0 .. (loop.iter - 2) : ~Fits(k)
    /\ pc = "c_loop" =>
          /\ loop.to_render = TailOf(inp.execLen, loop.iter)
          /\ loop.iter >= 1 => ~Fits(loop.iter - 1)
    /\ pc = "c_call" =>
          /\ loop.iter >= 1
          /\ loop.rendered = TailOf(inp.execLen, loop.iter - 1)
          /\ Fits(loop.iter - 1) => loop.to_render = loop.rendered
          /\ ~Fits(loop.iter - 1) => loop.iter = 10
    /\ (Single /\ cnt.criticInv = 1 /\ pc \in {"f_loop", "f_call", "done", "raised"}) =>
          Len(CriticCalls) = 1
    /\ \A i \in DOMAIN CriticCalls :
          /\ ~CriticCalls[i].json_mode
          /\ IsSuffix(CriticCalls[i].text)
          /\ CriticCalls[i].counted <= 10

\* C13 witness: the one call was made with a prompt still over the limit
\* after 10 token counts, its feedback a proper tail of the original
C13_Witness ==
    /\ Len(CriticCalls) = 1 /\ CriticCalls[1].counted = 10
    /\ OverBudget(inp.promptBase, CriticCalls[1].text)
    /\ CriticCalls[1].text.lo > 0

\* C14 as stated: when the prompt is over the limit at each of the 10 token
\* counts, the prompt sent by the code evaluator and by the final decision
\* evaluator carries the feedback that remains after the 10th halving.
C14_SentReflectsAllHalvings ==
    \A i \in DOMAIN calls :
        (calls[i].who \in {"critic", "final"} /\ NeverFits) =>
            calls[i].text = TailOf(inp.execLen, 10)

\* C15 as stated: every completion call of the final decision evaluator is
\* preceded by a halving pass of its own, so at least one token count lies
\* between two consecutive calls.
C15_EveryAttemptHalves ==
    \A i \in DOMAIN FinalCalls :
        i > 1 => FinalCalls[i].counted > FinalCalls[i - 1].counted

\* C15 amended: the final decision evaluator runs the halving pass once,
\* before its first completion call; no token is counted after that call and
\* every retry sends the prompt of the first attempt again.
C15_HalvingOnlyBeforeFirstAttempt ==
    /\ cnt.finalCalls >= 1 => pc # "f_loop"
    /\ \A i \in DOMAIN FinalCalls :
          /\ FinalCalls[i].counted = FinalCalls[1].counted
          /\ FinalCalls[i].text = FinalCalls[1].text
          /\ \A j \in DOMAIN CriticCalls : FinalCalls[i].counted > CriticCalls[j].counted
    /\ cnt.finalCalls >= 1 => cnt.tokenCalls = FinalCalls[1].counted

\* C15 witness: three attempts with the same halved feedback
C15_Witness ==
    /\ Len(FinalCalls) = 3 /\ FinalCalls[3].text.lo > 0
    /\ FinalCalls[3].text = FinalCalls[1].text

\* an evaluator was called on its own and the call has ended
CheckEnded == inp.caller = "check" /\ pc \in {"done", "raised"}
\* the text an evaluator returns for a candidate without a table
NoneMessage(check) ==
    CASE check = "daily" -> "The source dataframe is None. Skip the evaluation of the datetime format."
      [] check = "output_format" -> "The source dataframe is None. Skip the evaluation of the output format."
      [] OTHER -> "The source dataframe is None. Please check the implementation."

\* C19: when the candidate produced no table, every table check and the
\* format evaluator return their dedicated failing result without raising,
\* whatever the ground truth is (none, a workspace without a table, any
\* table): the metric is false, for the equal-value ratio it is -1, and the
\* format evaluator makes no completion call.
C19_AbsentTableFailsWithoutRaising ==
    (CheckEnded /\ ~inp.gen.present) =>
        /\ pc = "done" /\ err = NoErr
        /\ chk.done /\ ~chk.out.raised
        /\ chk.out.msg = NoneMessage(inp.check)
        /\ chk.out.metric = IF inp.check = "equal_value_ratio" THEN Num(-1, 1) ELSE MBool(FALSE)
        /\ calls = <<>> /\ cnt.fmtCalls = 0

\* C19 witness: the row count check returned false for a missing candidate
\* table although the ground truth workspace produced no table either
C19_Witness ==
    /\ CheckEnded /\ ~inp.gen.present /\ inp.check = "row_count"
    /\ inp.gtGiven /\ ~inp.gt.present
    /\ chk.done /\ chk.out.metric = MBool(FALSE)

\* the checks that compare the candidate with the ground truth
GtComparing ==
    {"row_count", "index", "missing_values", "equal_value_ratio",
     "correlation_hard", "correlation_soft"}

\* C20 as stated: when a ground truth workspace is given but produced no
\* table and the candidate table is present, each comparing check returns a
\* failing result instead of raising.
C20_AbsentGroundTruthFails ==
    (CheckEnded /\ inp.check \in GtComparing
       /\ inp.gtGiven /\ ~inp.gt.present /\ inp.gen.present) =>
        /\ pc = "done" /\ err = NoErr
        /\ chk.done /\ ~chk.out.raised
        /\ ~Gt99(chk.out.metric)

\* FactorMultiEvaluator.evaluate has returned its list
BatchReturned == inp.caller = "batch" /\ pc = "b_done"
\* where the knowledge holds the information of sub task i
KnowledgeOf(i) == IF inp.queried THEN inp.cands[i].task.knowledge ELSE "none"
\* the final decision that the evaluation of candidate i gives, "None" when
\* there is no implementation
DecisionOf(i) ==
    IF ~inp.cands[i].ws.impl THEN "None"
    ELSE CASE KnowledgeOf(i) = "success" -> CachedFeedback.final_decision
           [] KnowledgeOf(i) = "failed" -> FailedFeedback.final_decision
           [] OTHER -> inp.cands[i].ws.verdict
\* entry is what the evaluation of candidate i returns
EntryIsOf(entry, i) ==
    IF ~inp.cands[i].ws.impl THEN entry.none
    ELSE /\ ~entry.none
         /\ entry.feedback.final_decision = DecisionOf(i)
         /\ CASE KnowledgeOf(i) = "success" -> entry.feedback = CachedFeedback
              [] KnowledgeOf(i) = "failed" -> entry.feedback = FailedFeedback
              [] OTHER -> entry.feedback.final_decision_based_on_gt = (IF inp.gts THEN "True" ELSE "False")

\* C16: the list that the batch evaluator returns is as long as the list of
\* candidates and its entry i is the result of evaluating candidate i, None
\* when candidate i has no implementation, in whatever order the parallel
\* evaluations ended.
C16_ResultsAlignWithCandidates ==
    (inp.caller = "batch" /\ pc \in {"b_mark", "b_done"}) =>
        /\ Len(multi) = Len(inp.cands)
        /\ \A i \in DOMAIN inp.cands : EntryIsOf(multi[i], i)

\* C16 witness: the second evaluation ended before the first; the first
\* entry is None and the second a feedback
C16_Witness ==
    /\ BatchReturned /\ Len(multi) >= 2
    /\ pool[2].order < pool[1].order
    /\ multi[1].none /\ ~multi[2].none

\* C17: after the batch evaluator returned, task i is marked implemented
\* whenever its feedback is not None and has final_decision true; where the
\* feedback is None or final_decision is false the flag has the value it had
\* before (it is never cleared), and a task already marked stays marked.
C17_MarksOnlySuccessfulTasks ==
    BatchReturned =>
        \A i \in DOMAIN inp.cands :
            /\ (~multi[i].none /\ multi[i].feedback.final_decision = "True") =>
                  shared.tasks[i].factor_implementation
            /\ (multi[i].none \/ multi[i].feedback.final_decision = "False") =>
                  shared.tasks[i].factor_implementation = inp.cands[i].task.factor_implementation

\* C17 witness: one task was marked by this batch, and another, marked
\* before, kept its mark although its candidate failed
C17_Witness ==
    /\ BatchReturned
    /\ \E i, j \in DOMAIN inp.cands :
          /\ ~inp.cands[i].task.factor_implementation
          /\ ~multi[i].none /\ multi[i].feedback.final_decision = "True"
          /\ shared.tasks[i].factor_implementation
          /\ inp.cands[j].task.factor_implementation
          /\ ~multi[j].none /\ multi[j].feedback.final_decision = "False"
          /\ shared.tasks[j].factor_implementation

\* C18: while the evaluations of a batch run, none of them writes the
\* knowledge or a task record: these change only in the marking step of the
\* batch evaluator, after all results were collected.  So the returned list
\* and the final flags are determined by the candidates alone, the same for
\* every interleaving of the evaluations.
C18_EvaluationsShareNothingMutable ==
    /\ [][shared' # shared => (pc = "b_mark" /\ pc' = "b_done"
                                 /\ shared'.knowledge = shared.knowledge)]_vars
    /\ [](BatchReturned =>
            \A i \in DOMAIN inp.cands :
                /\ EntryIsOf(multi[i], i)
                /\ shared.tasks[i].factor_implementation =
                      (inp.cands[i].task.factor_implementation \/ DecisionOf(i) = "True"))

\* C18 witness: with two workers the second evaluation ended before the
\* first, and the batch evaluator marked a task after both
C18_Witness ==
    /\ BatchReturned /\ inp.n = 2 /\ Len(pool) >= 2
    /\ pool[2].order = 1 /\ pool[1].order = 2
    /\ shared # SharedOf(inp.cands, inp.queried)

\* a direct call of FactorValueEvaluator.evaluate
Direct == inp.caller = "direct"

\* C21: FactorValueEvaluator.evaluate, called on a candidate whose execution
\* yields no table, never raises, for version 1 and for version 2, with or
\* without a ground truth workspace.
C21_AbsentTableNeverRaises ==
    (Direct /\ ~inp.gen.present) => pc # "raised"

\* FactorEqualValueRatioEvaluator.evaluate was called on its own with a
\* candidate table and a ground truth without a table, so that the
\* subtraction inside its try block raises
RatioComputationFails ==
    /\ inp.caller = "check" /\ inp.check = "equal_value_ratio"
    /\ inp.gen.present /\ ~inp.gt.present

\* C22: an error inside the near-equality computation of
\* FactorEqualValueRatioEvaluator is recovered locally: the evaluator still
\* returns an explanation and a metric, and no exception leaves it.
C22_RatioErrorRecoveredLocally ==
    (RatioComputationFails /\ pc # "check") =>
        (pc = "done" /\ chk.done /\ ~chk.out.raised)

\* a direct call whose candidate table is the ground truth table itself: at
\* least one row, every value finite, datetimes one day apart
IdenticalTables ==
    /\ Direct /\ inp.gtGiven /\ inp.gen.present /\ inp.gt = inp.gen
    /\ inp.gen.rows > 0 /\ inp.gen.tail = "none" /\ inp.gen.dt = "day"

\* the call of FactorValueEvaluator.evaluate has ended: it returned, or one
\* of its table checks raised
ValueEnded == pc = "v_done" \/ (pc = "raised" /\ err.who = "value")

\* C23: for a candidate table identical to the ground truth table, with one
\* column or with two, FactorValueEvaluator.evaluate completes and returns
\* Pass: the daily check passes, the equal-value ratio is 1 and no check
\* raises.
C23_IdenticalTablesPass ==
    (IdenticalTables /\ ValueEnded) =>
        /\ pc = "v_done" /\ val.returned
        /\ val.decision = "Pass"
        /\ val.loc.equal_value_ratio_result.t = "num"
        /\ val.loc.equal_value_ratio_result.n = val.loc.equal_value_ratio_result.d
        /\ inp.version = 1 => val.loc.daily_check_result = MBool(TRUE)

\* C24: every result returned by a check carries a non-empty explanation,
\* when the check passes as when it fails, the row count check and the index
\* check with a metric above 0.99 included.
C24_ExplanationNeverEmpty ==
    (CheckEnded /\ chk.done /\ ~chk.out.raised) => chk.out.msg # ""

\* the explanation FactorOutputFormatEvaluator returned in this call
FormatExplanation ==
    IF inp.gen.present THEN "<output_format_feedback>" ELSE FormatWithoutTable.msg

\* the explanation of the correlation step: that of the hard check when the
\* index similarity is above 0.99, else the give-up note
CorrelationExplanation ==
    IF Gt99(FactorIndexEvaluator(inp.gen, inp.gt).metric)
    THEN FactorCorrelationEvaluator(TRUE, inp.gen, inp.gt).msg
    ELSE SkipNote

\* the explanations of the checks of a call, each taken from its evaluator,
\* in the order the claim lists them
ExpectedConclusions ==
    (IF inp.version = 1
     THEN <<FactorSingleColumnEvaluator(inp.gen).msg>>
     ELSE IF inp.gen.cols > inp.input_cols THEN <<ColumnNote>> ELSE <<>>)
    \o <<FactorInfEvaluator(inp.gen).msg, FormatExplanation>>
    \o (IF inp.version = 1 THEN <<FactorDatetimeDailyEvaluator(inp.gen).msg>> ELSE <<>>)
    \o (IF inp.gtGiven
        THEN <<FactorRowCountEvaluator(inp.gen, inp.gt).msg,
               FactorIndexEvaluator(inp.gen, inp.gt).msg,
               FactorMissingValuesEvaluator(inp.gen, inp.gt).msg,
               FactorEqualValueRatioEvaluator(inp.gen, inp.gt).msg,
               CorrelationExplanation>>
        ELSE <<>>)

\* C25: the conclusion of FactorValueEvaluator.evaluate is made of the
\* explanations of exactly the checks it ran, in the fixed order single
\* column (version 1) or column note (version 2, only when the guard flags),
\* inf, format, daily (version 1), and with a ground truth row count, index,
\* missing values, equal-value ratio, correlation or give-up note; it is
\* built in the same way for every decision.
C25_ConclusionListsChecksInOrder ==
    ValueReturned =>
        /\ val.conclusions = ExpectedConclusions
        /\ val.decision \in {"Pass", "Fail", "Indet"}
        /\ Single => fb.factor_value_feedback = val.conclusions

\* C25 witness: a version 2 call with a ground truth whose conclusion starts
\* with the column note and ends with the give-up note
C25_Witness ==
    /\ ValueReturned /\ inp.version = 2 /\ inp.gtGiven
    /\ Len(val.conclusions) = 8
    /\ val.conclusions[1] = ColumnNote
    /\ val.conclusions[8] = SkipNote
    /\ val.conclusions[3] = "<output_format_feedback>"

\* the stage of FactorEvaluatorForCoder.evaluate a position belongs to
StageRank(p) ==
    CASE p = "start" -> 0
      [] p = "lookup" -> 1
      [] p = "exec" -> 2
      [] p \in {"v_begin", "fmt", "v_rest"} -> 3
      [] p = "branch" -> 4
      [] p \in {"c_loop", "c_call"} -> 5
      [] p \in {"f_loop", "f_call"} -> 6
      [] OTHER -> 7

\* what holds of the counters and of the completion calls made so far
StagesSoFarInOrder ==
    /\ cnt.execs > 0 =>
          (cnt.taskInfo >= 1 /\ (inp.knowledge # "none" => cnt.lookups = 1))
    /\ calls # <<>> => cnt.execs >= 1
    /\ cnt.criticInv <= 1 /\ cnt.finalInv <= 1 /\ Len(CriticCalls) <= 1
    /\ cnt.finalInv = 1 => Len(CriticCalls) = 1
    /\ \A i, j \in DOMAIN calls :
          /\ (IsFormatCall(calls[i]) /\ ~IsFormatCall(calls[j])) => i < j
          /\ (IsCriticCall(calls[i]) /\ IsFinalCall(calls[j])) => i < j
    /\ \A j \in DOMAIN calls :
          IsFinalCall(calls[j]) => \E i \in 1 .. (j - 1) : IsCriticCall(calls[i])

\* C26: within one call of FactorEvaluatorForCoder.evaluate the stages occur
\* in the order knowledge lookup, execution of the candidate, value check,
\* code evaluator, final decision evaluator, done: the candidate is never
\* executed before the lookup, no completion call precedes the first
\* execution, the code evaluator's call precedes every call of the final
\* decision evaluator, each of the two is invoked at most once, and the
\* feedback is not changed once it is returned.
C26_StagesInOrder ==
    /\ [](Single => StagesSoFarInOrder)
    /\ [][Single => /\ StageRank(pc') >= StageRank(pc)
                    /\ Returned => (fb' = fb /\ result' = result /\ calls' = calls)]_vars

\* C26 witness: a returned call that went through every stage: the lookup
\* missed, the format evaluator, the code evaluator and the final decision
\* evaluator each made a completion call
C26_Witness ==
    /\ Returned /\ inp.knowledge = "miss" /\ cnt.lookups = 1
    /\ Len(FormatCalls) >= 1 /\ Len(CriticCalls) = 1 /\ Len(FinalCalls) >= 2
    /\ fb.final_decision \in {"True", "False"}

\* the distinct timestamps of the candidate's datetime level
Timestamps == {Stamp(Date(r)) : r \in Index(inp.gen)}
\* the time deltas between consecutive distinct timestamps
ConsecutiveDeltas ==
    {b - a : <<a, b>> \in {ab \in Timestamps \X Timestamps :
                              /\ ab[1] < ab[2]
                              /\ ~\E c \in Timestamps : ab[1] < c /\ c < ab[2]}}
\* the daily check was called on its own on a candidate table
DailyEnded == CheckEnded /\ inp.check = "daily" /\ inp.gen.present /\ chk.done

RowCountEnded ==
    CheckEnded /\ inp.check = "row_count" /\ inp.gen.present /\ inp.gt.present

\* C28: for any two tables, tables without rows included, the row count
\* check returns min(rowsA, rowsB) / max(rowsA, rowsB), a metric in (0, 1]
\* that is the same for (A, B) and (B, A).
C28_RowCountRatioInUnitInterval ==
    RowCountEnded =>
        /\ pc = "done" /\ chk.done /\ ~chk.out.raised
        /\ chk.out.metric = Num(Min(inp.gen.rows, inp.gt.rows), Max(inp.gen.rows, inp.gt.rows))
        /\ 0 < chk.out.metric.n /\ chk.out.metric.n <= chk.out.metric.d
        /\ FactorRowCountEvaluator(inp.gt, inp.gen).metric = chk.out.metric

\* the call has ended: it returned or it raised
Ended == pc \in {"done", "raised"}

\* the calls made so far stay within the budget of one evaluation
WithinCallBudget ==
    /\ cnt.fmtCalls <= 3 /\ Len(FormatCalls) = cnt.fmtCalls
    /\ cnt.criticCalls <= 1 /\ Len(CriticCalls) = cnt.criticCalls
    /\ cnt.finalCalls <= 3 /\ Len(FinalCalls) = cnt.finalCalls
    /\ Len(calls) <= 7
    /\ cnt.tokenCalls <= 20
    /\ (pc \in {"c_loop", "c_call"}) => cnt.tokenCalls <= 10

\* C29: every call of FactorEvaluatorForCoder.evaluate ends, by returning or
\* by raising, as long as each external call returns; it makes at most 7
\* completion calls (3 by the format evaluator, 1 by the code evaluator, 3
\* by the final decision evaluator) and at most 20 token counts (10 in each
\* halving loop).
C29_TerminatesWithinCallBudget ==
    /\ [](Single => WithinCallBudget)
    /\ Single ~> Ended

\* C29 witness: a returned call that used the whole budget: 7 completion
\* calls and 20 token counts
C29_Witness ==
    /\ Returned /\ Len(calls) = 7 /\ cnt.tokenCalls = 20
    /\ cnt.fmtCalls = 3 /\ cnt.criticCalls = 1 /\ cnt.finalCalls = 3

\* the returned feedback was assembled by this call, not read from
\* success_task_to_knowledge_dict
Assembled == Returned /\ LookupOutcome(inp.knowledge) # "success"
\* the final decision evaluator ran and returned true
FinalSaidTrue ==
    /\ cnt.finalInv = 1 /\ FinalCalls # <<>>
    /\ FinalCalls[Len(FinalCalls)].resp = "ok"
    /\ loop.out.decision = "True"

\* C30: in every feedback that FactorEvaluatorForCoder.evaluate assembles
\* itself, final_decision is a boolean, and it is true if and only if the
\* value decision was Pass, or the value decision was Indeterminate (also
\* when no table was produced) and the final decision evaluator returned
\* true; it is never true when the value decision was Fail.
C30_FinalDecisionFollowsVerdict ==
    Assembled =>
        /\ fb.final_decision \in {"True", "False"}
        /\ (fb.final_decision = "True") <=>
              (val.decision = "Pass" \/ (val.decision = "Indet" /\ FinalSaidTrue))
        /\ val.decision = "Fail" => fb.final_decision = "False"

\* C30 witness: no table was produced, the decision is Indeterminate and the
\* final decision evaluator's answer made the feedback's decision true
C30_Witness ==
    /\ Assembled /\ ~inp.gen.present /\ val.decision = "Indet"
    /\ FinalSaidTrue /\ fb.final_decision = "True"

\* FactorValueEvaluator.evaluate returned from a call without a ground truth
\* workspace
ReturnedWithoutGt == ValueReturned /\ ~inp.gtGiven

\* C31: without a ground truth workspace FactorValueEvaluator.evaluate never
\* returns Pass and runs none of the row count, index, missing values,
\* equal-value ratio and correlation checks; the decision is Fail or
\* Indeterminate and is Fail exactly when the inf check or (version 1) the
\* daily check failed.
C31_NoGroundTruthNeverPasses ==
    /\ ~inp.gtGiven => (cnt.corrInv = 0 /\ val.loc.execs <= 1 /\ val.decision # "Pass")
    /\ ReturnedWithoutGt =>
          /\ val.decision \in {"Fail", "Indet"}
          /\ (val.decision = "Fail") <=> (InfFailed \/ (inp.version = 1 /\ DailyFailed))
          /\ val.loc.row_result = MNone
          /\ val.loc.index_result = Num(0, 1)
          /\ val.loc.output_format_result = MNone
          /\ val.loc.equal_value_ratio_result = Num(0, 1)
          /\ val.loc.high_correlation_result = MBool(FALSE)
          /\ val.loc.execs = (IF inp.version = 1 THEN 1 ELSE 0)
          /\ Len(val.conclusions) = Len(ExpectedConclusions)
          /\ Len(val.conclusions) <= 4

\* C31 witness: a version 1 call without a ground truth on a table that has
\* no inf value and is daily, whose format decision is false: Indeterminate
C31_Witness ==
    /\ ReturnedWithoutGt /\ inp.version = 1 /\ inp.gen.present
    /\ ~InfFailed /\ ~DailyFailed /\ FormatFailed
    /\ val.decision = "Indet"

\* the decision of a call as its tables and its version alone determine it:
\* every check but the format evaluator is a function of these
DecisionFromTables ==
    CHOOSE d \in {DecisionFromValueCheck(
                      inp.gtGiven, r.equal_value_ratio_result, r.high_correlation_result,
                      r.row_result, r.output_format_result, r.daily_check_result,
                      FactorInfEvaluator(inp.gen).metric) :
                   r \in {ValueChecks(inp.gen, inp.gtGiven, inp.gt, inp.version)}} : TRUE

\* C32: the boolean decision returned by the format evaluator has no
\* influence on the decision of FactorValueEvaluator.evaluate: the decision
\* is the one the tables and the version determine, whether the format
\* decision was true or false, so two calls that differ only in the format
\* decision return the same decision; of the format evaluator's result only
\* the feedback text enters the conclusion.
C32_FormatDecisionWithoutInfluence ==
    ValueReturned =>
        /\ val.decision = DecisionFromTables
        /\ val.loc.output_format_result # MNone => inp.gtGiven
        /\ \E i \in DOMAIN val.conclusions : val.conclusions[i] = FormatExplanation
        /\ \A i \in DOMAIN val.conclusions : val.conclusions[i] \notin {"True", "False"}

\* C32 witness: a version 2 call without a ground truth whose format
\* decision is false and whose decision is nevertheless Indeterminate
C32_Witness ==
    /\ ValueReturned /\ inp.version = 2 /\ ~inp.gtGiven /\ inp.gen.present
    /\ val.format_decision = MBool(FALSE) /\ ~InfFailed
    /\ val.decision = "Indet"

====
